---- MODULE Spec2Model ----
(***************************************************************************)
(* A model of pybag-rs: the MCAP container writer (mcap/writer.rs), the    *)
(* record parser (mcap/parser.rs), the byte readers (io/reader.rs), the    *)
(* chunk codec (mcap/chunk.rs, mcap/crc.rs), the container reader          *)
(* (mcap/reader.rs), the memory-mapped reader (mcap/zerocopy.rs), the CDR  *)
(* codec (encoding/cdr.rs), the schema parser (schema/ros2msg.rs,          *)
(* schema/types.rs), and the CDR decoder of the Python binding             *)
(* (src/rust/src/lib.rs).                                                  *)
(*                                                                         *)
(* Files are sequences of bytes (naturals below 256).  The writer's sink   *)
(* holds the bytes the code writes, field by field, and the reader parses  *)
(* those bytes again, so that an encode/parse round trip is a fact about   *)
(* the two translations and not an identity.                               *)
(*                                                                         *)
(* Integers of the model stay far below 2^31; a u16/u32/u64 field is a     *)
(* natural number, written little-endian on the given width.  The one      *)
(* exception is a CRC-32, whose 32 bits are all significant: it is kept as *)
(* its four little-endian bytes.                                           *)
(***************************************************************************)
EXTENDS Integers, Sequences, FiniteSets, TLC

VARIABLES
    pc,        \* where the run is: "writing" | "closed" | "failed" (a write_* call or
               \* close returned an error) | "open" | "rejected" (open failed) | "read",
               \* or "mapped" | "unmapped" (FastMcapReader::open failed) | "iterated",
               \* or "encoding" | "decoding" for the CDR codec,
               \* or "codec" | "compressed" | "decompressed" | "decoded" for the
               \* chunk codec on its own
               \* or "schema" | "parsed" for the schema parser on its own
    w,         \* McapWriter: the fields of the struct, the sink included
    calls,     \* history: how many write_* calls were made on the writer
    written,   \* history: the messages given to write_message, in call order
    file,      \* the bytes of the closed file, as the reader finds them
    tamper,    \* what was changed in the file after close: NoTamper, or the change
    rd,        \* None, or what McapReader::new (or FastMcapReader::open) returned:
               \* Ok(reader) or the error
    query,     \* None, or the arguments of the last call made on the reader
    res,       \* None, or what that call returned
    enc,       \* CdrEncoder
    dec,       \* None, or CdrDecoder
    cdr,       \* history of the CDR calls: where each value was written or read
    log,       \* history: the write_* calls made on the writer, in call order
    reads      \* history: how many calls were made on the open reader

vars == <<pc, w, calls, written, file, tamper, rd, query, res, enc, dec, cdr, log, reads>>

(***************************************************************************)
(* Bounds of the model.                                                    *)
(***************************************************************************)
\* write_* calls made on one writer before close
MaxCalls == 3
\* log_time values range over 1..MaxTime
MaxTime == 2
\* primitives written to one CdrEncoder / read from one CdrDecoder
MaxCdrOps == 3
\* chunk_size of the chunked writers, in bytes
ChunkSize == 32
\* a bit is flipped within the first MaxFlipOffset bytes of a chunk's records
MaxFlipOffset == 8
\* write_* calls made before close in the runs that filter or tamper
MaxShortCalls == 2

\* calls made on one open reader
MaxReads == 2

\* the byte strings given to the chunk codec have at most MaxData bytes
MaxData == 3

\* the schema texts given to the schema parser have at most MaxLines lines
MaxLines == 3

None == <<"None">>

Some(x) == <<"Some", x>>

IsSome(o) == o # None

Unwrap(o) == o[2]

UnwrapOr(o, d) == IF o = None THEN d ELSE o[2]

Min(a, b) == IF a < b THEN a ELSE b

Max(a, b) == IF a > b THEN a ELSE b

(***************************************************************************)
(* Bytes.                                                                  *)
(***************************************************************************)
Byte == 0..255

\* The value every integer that does not fit the model's range is read as: it
\* is larger than every length and offset of a file of the model.
Huge == 1000000000

\* value.to_le_bytes() on 2, 4 and 8 bytes, for a value below 2^31
U16LE(v) == <<v % 256, (v \div 256) % 256>>

U32LE(v) == <<v % 256, (v \div 256) % 256, (v \div 65536) % 256, (v \div 16777216) % 256>>

U64LE(v) == U32LE(v) \o <<0, 0, 0, 0>>

\* from_le_bytes: the value of little-endian bytes b (2, 4 or 8 of them)
FromLE(b) ==
    LET n == Len(b)
        high == \E i \in 1..n : i > 4 /\ b[i] # 0
        lo(i) == IF i <= n THEN b[i] ELSE 0
    IN  IF high \/ lo(4) >= 59 THEN Huge
        ELSE lo(1) + 256 * lo(2) + 65536 * lo(3) + 16777216 * lo(4)

\* s[from+1 .. from+n], the n bytes of s that follow offset `from`
Slice(s, from, n) == SubSeq(s, from + 1, from + n)

\* s with the byte at offset `at` (0-based) replaced by b
Poke(s, at, b) == [s EXCEPT ![at + 1] = b]

\* the sequences that list every element of the finite set S once: the orders
\* in which a HashMap may iterate over the keys S
\* s back to front
Reverse(s) == [i \in 1..Len(s) |-> s[Len(s) + 1 - i]]

RECURSIVE Perms(_)
Perms(S) ==
    IF S = {} THEN {<<>>}
    ELSE UNION {{<<x>> \o p : p \in Perms(S \ {x})} : x \in S}

RECURSIVE Concat(_)
Concat(ss) == IF ss = <<>> THEN <<>> ELSE Head(ss) \o Concat(Tail(ss))

(***************************************************************************)
(* CRC-32 (mcap/crc.rs).  compute_crc is crc32fast's Hasher over the whole *)
(* input: the IEEE CRC-32, reflected polynomial 0xEDB88320, initial value  *)
(* and final XOR 0xFFFFFFFF.  A CRC is kept as its four little-endian      *)
(* bytes.                                                                  *)
(***************************************************************************)
Bit(x, i) == (x \div (2 ^ i)) % 2

XorNibble ==
    [a \in 0..15 |-> [b \in 0..15 |->
        ((Bit(a, 0) + Bit(b, 0)) % 2) + 2 * ((Bit(a, 1) + Bit(b, 1)) % 2)
        + 4 * ((Bit(a, 2) + Bit(b, 2)) % 2) + 8 * ((Bit(a, 3) + Bit(b, 3)) % 2)]]

\* a ^ b on bytes
Xor8(a, b) == 16 * XorNibble[a \div 16][b \div 16] + XorNibble[a % 16][b % 16]

\* a ^ b on 32-bit words
Xor32(a, b) == <<Xor8(a[1], b[1]), Xor8(a[2], b[2]), Xor8(a[3], b[3]), Xor8(a[4], b[4])>>

\* c >> 1 on a 32-bit word
Shr1(c) ==
    <<(c[1] \div 2) + 128 * (c[2] % 2), (c[2] \div 2) + 128 * (c[3] % 2),
      (c[3] \div 2) + 128 * (c[4] % 2), c[4] \div 2>>

\* 0xEDB88320
CrcPoly == <<32, 131, 184, 237>>

CrcShift(c) == IF c[1] % 2 = 1 THEN Xor32(Shr1(c), CrcPoly) ELSE Shr1(c)

CrcTable ==
    [n \in 0..255 |->
        CrcShift(CrcShift(CrcShift(CrcShift(
        CrcShift(CrcShift(CrcShift(CrcShift(<<n, 0, 0, 0>>))))))))]

\* one byte into the running CRC: table[(crc ^ b) & 0xFF] ^ (crc >> 8)
CrcUpdate(c, b) == Xor32(CrcTable[Xor8(c[1], b)], <<c[2], c[3], c[4], 0>>)

\* hasher.update(data): the bytes data[lo..hi] folded into the register c, in
\* order (the range is split in halves to keep the evaluation shallow)
RECURSIVE CrcFold(_, _, _, _)
CrcFold(c, data, lo, hi) ==
    IF lo > hi THEN c
    ELSE IF lo = hi THEN CrcUpdate(c, data[lo])
    ELSE LET mid == (lo + hi) \div 2
             left == CrcFold(c, data, lo, mid)
         IN  IF left[1] \in Byte THEN CrcFold(left, data, mid + 1, hi) ELSE left

compute_crc(data) ==
    Xor32(CrcFold(<<255, 255, 255, 255>>, data, 1, Len(data)), <<255, 255, 255, 255>>)

\* the u32 0 as a CRC: "no CRC"
CrcZero == <<0, 0, 0, 0>>

(***************************************************************************)
(* Chunk compression (mcap/chunk.rs).  lz4::block and zstd are libraries   *)
(* outside the repository; the model keeps their documented interface.     *)
(*   - lz4::block::compress(src, mode, prepend_size) returns a raw LZ4     *)
(*     block, preceded by the uncompressed size as 4 little-endian bytes   *)
(*     only when prepend_size is set.  compress_lz4 passes false.          *)
(*   - lz4::block::decompress_to_buffer(src, uncompressed_size, buffer)    *)
(*     takes the size from its argument when it is Some, and otherwise     *)
(*     reads it from the first 4 bytes of src (an i32) and decodes the     *)
(*     rest; it fails when src has fewer than 4 bytes, when the size is    *)
(*     negative and when it exceeds the buffer.  decompress_lz4 passes     *)
(*     None.                                                               *)
(*   - zstd::encode_all writes a frame that starts with the magic number   *)
(*     0xFD2FB528 and carries its content size; zstd::decode_all inverts   *)
(*     it.                                                                 *)
(*   - on bytes that are no block or frame a decoder either fails or       *)
(*     yields other bytes: which of the two is the library's business, so  *)
(*     it is a choice (`nd`) of the model.                                 *)
(* The block written is the literal-only form of each format: the bytes    *)
(* behind their length (an LZ4 token with its length bytes, a zstd frame   *)
(* header).                                                                *)
(***************************************************************************)
ZstdMagic == <<40, 181, 47, 253>>

\* the bytes that follow the token of a run of n >= 15 literals
Lz4Length(n) ==
    [i \in 1..((n - 15) \div 255 + 1) |->
        IF i <= (n - 15) \div 255 THEN 255 ELSE (n - 15) % 255]

\* lz4::block::compress(data, None, false)
compress_lz4(data) ==
    IF Len(data) < 15 THEN <<16 * Len(data)>> \o data
    ELSE <<240>> \o Lz4Length(Len(data)) \o data

compress_zstd(data) == ZstdMagic \o U16LE(Len(data)) \o data

Ok(v) == [ok |-> TRUE, val |-> v]

Err(e) == [ok |-> FALSE, err |-> e]

\* output = vec![0u8; uncompressed_size];
\* lz4::block::decompress_to_buffer(data, None, &mut output)
\* nd: what the library does with bytes that are no block ("error" | "bytes")
decompress_lz4(data, uncompressed_size, nd) ==
    IF Len(data) < 4 \/ data[4] >= 128
       \/ FromLE(SubSeq(data, 1, 4)) > uncompressed_size
       \/ nd = "error"
    THEN Err([kind |-> "DecompressionError"])
    ELSE Ok([i \in 1..uncompressed_size |-> IF i + 4 <= Len(data) THEN data[i + 4] ELSE 0])

decompress_zstd(data, nd) ==
    IF Len(data) < 6 \/ SubSeq(data, 1, 4) # ZstdMagic
    THEN Err([kind |-> "DecompressionError"])
    ELSE IF FromLE(SubSeq(data, 5, 6)) = Len(data) - 6
    THEN Ok(SubSeq(data, 7, Len(data)))
    ELSE IF nd = "error" THEN Err([kind |-> "DecompressionError"])
    ELSE Ok(SubSeq(data, 7, Len(data)))

\* compression names as byte strings
NameNone == <<110, 111, 110, 101>>

NameLz4 == <<108, 122, 52>>

NameZstd == <<122, 115, 116, 100>>

compress_chunk(compression, data) ==
    IF compression = <<>> \/ compression = NameNone THEN Ok(data)
    ELSE IF compression = NameLz4 THEN Ok(compress_lz4(data))
    ELSE IF compression = NameZstd THEN Ok(compress_zstd(data))
    ELSE Err([kind |-> "UnknownCompression", name |-> compression])

decompress_chunk(compression, data, uncompressed_size, nd) ==
    IF compression = <<>> \/ compression = NameNone THEN Ok(data)
    ELSE IF compression = NameLz4 THEN decompress_lz4(data, uncompressed_size, nd)
    ELSE IF compression = NameZstd THEN decompress_zstd(data, nd)
    ELSE Err([kind |-> "UnknownCompression", name |-> compression])

(***************************************************************************)
(* Record encoding (mcap/writer.rs, "Record encoding helpers").  Every     *)
(* operator returns the bytes the function of the same name writes.        *)
(***************************************************************************)
\* RecordType opcodes (mcap/records.rs)
OpHeader == 1
OpFooter == 2
OpSchema == 3
OpChannel == 4
OpMessage == 5
OpChunk == 6
OpMessageIndex == 7
OpChunkIndex == 8
OpAttachment == 9
OpAttachmentIndex == 10
OpStatistics == 11
OpMetadata == 12
OpMetadataIndex == 13
OpSummaryOffset == 14
OpDataEnd == 15

\* b"\x89MCAP0\r\n"
MAGIC_BYTES == <<137, 77, 67, 65, 80, 48, 13, 10>>

\* "pybag_rs"
LibraryName == <<112, 121, 98, 97, 103, 95, 114, 115>>

write_string(str) == U32LE(Len(str)) \o str

\* a HashMap<String, String> is a function from keys to values; `order` lists
\* its keys in the order the iteration visits them
write_map_string_string(map, order) ==
    LET content == Concat([i \in 1..Len(order) |->
                        U32LE(Len(order[i])) \o order[i]
                        \o U32LE(Len(map[order[i]])) \o map[order[i]]])
    IN  U32LE(Len(content)) \o content

write_map_u16_u64(map, order) ==
    U32LE(Cardinality(DOMAIN map) * 10)
    \o Concat([i \in 1..Len(order) |-> U16LE(order[i]) \o U64LE(map[order[i]])])

\* the one iteration order of a map with at most one key
AnyOrder(map) == CHOOSE o \in Perms(DOMAIN map) : TRUE

Record(opcode, content) == <<opcode>> \o U64LE(Len(content)) \o content

write_header_record(header) ==
    Record(OpHeader, write_string(header.profile) \o write_string(header.library))

\* write_footer_record with the summary offset section put at the summary
write_footer_record_offsets(footer) ==
    <<OpFooter>> \o U64LE(20) \o U64LE(footer.summary_start)
    \o U64LE(footer.summary_start) \o U32LE(footer.summary_crc)

write_footer_record(footer) ==
    <<OpFooter>> \o U64LE(20) \o U64LE(footer.summary_start)
    \o U64LE(footer.summary_offset_start) \o U32LE(footer.summary_crc)

encode_schema_record(schema) ==
    Record(OpSchema,
        U16LE(schema.id) \o write_string(schema.name) \o write_string(schema.encoding)
        \o U32LE(Len(schema.data)) \o schema.data)

encode_channel_record(channel) ==
    Record(OpChannel,
        U16LE(channel.id) \o U16LE(channel.schema_id) \o write_string(channel.topic)
        \o write_string(channel.message_encoding)
        \o write_map_string_string(channel.metadata, AnyOrder(channel.metadata)))

\* a faulty encoder: log_time and publish_time exchanged
encode_message_record_swapped(message) ==
    <<OpMessage>> \o U64LE(2 + 4 + 8 + 8 + Len(message.data))
    \o U16LE(message.channel_id) \o U32LE(message.sequence)
    \o U64LE(message.publish_time) \o U64LE(message.log_time) \o message.data

encode_message_record(message) ==
    <<OpMessage>> \o U64LE(2 + 4 + 8 + 8 + Len(message.data))
    \o U16LE(message.channel_id) \o U32LE(message.sequence)
    \o U64LE(message.log_time) \o U64LE(message.publish_time) \o message.data

write_chunk_record(chunk) ==
    Record(OpChunk,
        U64LE(chunk.message_start_time) \o U64LE(chunk.message_end_time)
        \o U64LE(chunk.uncompressed_size) \o chunk.uncompressed_crc
        \o write_string(chunk.compression)
        \o U64LE(Len(chunk.records)) \o chunk.records)

write_chunk_index_record(index) ==
    Record(OpChunkIndex,
        U64LE(index.message_start_time) \o U64LE(index.message_end_time)
        \o U64LE(index.chunk_start_offset) \o U64LE(index.chunk_length)
        \o write_map_u16_u64(index.message_index_offsets,
                             AnyOrder(index.message_index_offsets))
        \o U64LE(index.message_index_length) \o write_string(index.compression)
        \o U64LE(index.compressed_size) \o U64LE(index.uncompressed_size))

write_attachment_record(attachment) ==
    Record(OpAttachment,
        U64LE(attachment.log_time) \o U64LE(attachment.create_time)
        \o write_string(attachment.name) \o write_string(attachment.media_type)
        \o U64LE(Len(attachment.data)) \o attachment.data \o U32LE(attachment.crc))

write_attachment_index_record(index) ==
    Record(OpAttachmentIndex,
        U64LE(index.offset) \o U64LE(index.length) \o U64LE(index.log_time)
        \o U64LE(index.create_time) \o U64LE(index.data_size)
        \o write_string(index.name) \o write_string(index.media_type))

write_metadata_record(metadata) ==
    Record(OpMetadata,
        write_string(metadata.name)
        \o write_map_string_string(metadata.metadata, AnyOrder(metadata.metadata)))

write_metadata_index_record(index) ==
    Record(OpMetadataIndex,
        U64LE(index.offset) \o U64LE(index.length) \o write_string(index.name))

\* order: the iteration order of stats.channel_message_counts
\* write_statistics_record with attachment_count and metadata_count exchanged
write_statistics_record_swapped(stats, order) ==
    Record(OpStatistics,
        U64LE(stats.message_count) \o U16LE(stats.schema_count)
        \o U32LE(stats.channel_count) \o U32LE(stats.metadata_count)
        \o U32LE(stats.attachment_count) \o U32LE(stats.chunk_count)
        \o U64LE(stats.message_start_time) \o U64LE(stats.message_end_time)
        \o write_map_u16_u64(stats.channel_message_counts, order))

write_statistics_record(stats, order) ==
    Record(OpStatistics,
        U64LE(stats.message_count) \o U16LE(stats.schema_count)
        \o U32LE(stats.channel_count) \o U32LE(stats.attachment_count)
        \o U32LE(stats.metadata_count) \o U32LE(stats.chunk_count)
        \o U64LE(stats.message_start_time) \o U64LE(stats.message_end_time)
        \o write_map_u16_u64(stats.channel_message_counts, order))

write_data_end_record(data_end) ==
    <<OpDataEnd>> \o U64LE(4) \o U32LE(data_end.data_section_crc)

(***************************************************************************)
(* McapWriter (mcap/writer.rs).  A writer is the record of the struct's    *)
(* fields; `writer` is the sink: the bytes written so far, whose length is *)
(* writer.position().  Each operation returns the writer it leaves behind  *)
(* and whether it returned Ok.                                             *)
(***************************************************************************)
EmptyMap == [k \in {} |-> 0]

\* map.insert(k, v)
MapInsert(map, k, v) == [x \in (DOMAIN map) \cup {k} |-> IF x = k THEN v ELSE map[x]]

\* a faulty counter: an entry that exists is left as it is
MapIncrement_once(map, k) == MapInsert(map, k, IF k \in DOMAIN map THEN map[k] ELSE 1)

\* *map.entry(k).or_insert(0) += 1
MapIncrement(map, k) == MapInsert(map, k, IF k \in DOMAIN map THEN map[k] + 1 ELSE 1)

Done(wr) == [ok |-> TRUE, w |-> wr]

Failed(wr, e) == [ok |-> FALSE, err |-> e, w |-> wr]

McapWriter_new(profile, chunk_size, chunk_compression) ==
    [ writer |-> MAGIC_BYTES
                 \o write_header_record([profile |-> profile, library |-> LibraryName]),
      profile |-> profile,
      library |-> LibraryName,
      chunk_size |-> chunk_size,
      chunk_compression |-> chunk_compression,
      schemas |-> EmptyMap,
      channels |-> EmptyMap,
      chunk_indices |-> <<>>,
      attachment_indices |-> <<>>,
      metadata_indices |-> <<>>,
      chunk_buffer |-> <<>>,
      chunk_message_start_time |-> None,
      chunk_message_end_time |-> None,
      chunk_message_counts |-> EmptyMap,
      message_count |-> 0,
      message_start_time |-> None,
      message_end_time |-> None,
      channel_message_counts |-> EmptyMap ]

\* a faulty flush: chunk_length is the length of the body of the Chunk record
WriteChunk_body_length(wr, taken, uncompressed_crc, compression, compressed_data) ==
    LET chunk ==
          [ message_start_time |-> UnwrapOr(wr.chunk_message_start_time, 0),
            message_end_time |-> UnwrapOr(wr.chunk_message_end_time, 0),
            uncompressed_size |-> Len(wr.chunk_buffer),
            uncompressed_crc |-> uncompressed_crc,
            compression |-> compression,
            records |-> compressed_data ]
        chunk_start_offset == Len(wr.writer)
        chunk_length == Len(write_chunk_record(chunk)) - 9
        chunk_index ==
          [ message_start_time |-> UnwrapOr(wr.chunk_message_start_time, 0),
            message_end_time |-> UnwrapOr(wr.chunk_message_end_time, 0),
            chunk_start_offset |-> chunk_start_offset,
            chunk_length |-> chunk_length,
            message_index_offsets |-> EmptyMap,
            message_index_length |-> 0,
            compression |-> compression,
            compressed_size |-> Len(compressed_data),
            uncompressed_size |-> Len(wr.chunk_buffer) ]
    IN  Done([taken EXCEPT
                !.writer = @ \o write_chunk_record(chunk),
                !.chunk_indices = Append(@, chunk_index),
                !.chunk_message_start_time = None,
                !.chunk_message_end_time = None,
                !.chunk_message_counts = EmptyMap])

\* the rest of flush_chunk once the buffer is compressed: the Chunk record
\* into the sink, its ChunkIndexRecord kept, the chunk state reset
WriteChunk(wr, taken, uncompressed_crc, compression, compressed_data) ==
    LET chunk ==
          [ message_start_time |-> UnwrapOr(wr.chunk_message_start_time, 0),
            message_end_time |-> UnwrapOr(wr.chunk_message_end_time, 0),
            uncompressed_size |-> Len(wr.chunk_buffer),
            uncompressed_crc |-> uncompressed_crc,
            compression |-> compression,
            records |-> compressed_data ]
        chunk_start_offset == Len(wr.writer)
        chunk_length == Len(write_chunk_record(chunk))
        chunk_index ==
          [ message_start_time |-> UnwrapOr(wr.chunk_message_start_time, 0),
            message_end_time |-> UnwrapOr(wr.chunk_message_end_time, 0),
            chunk_start_offset |-> chunk_start_offset,
            chunk_length |-> chunk_length,
            message_index_offsets |-> EmptyMap,
            message_index_length |-> 0,
            compression |-> compression,
            compressed_size |-> Len(compressed_data),
            uncompressed_size |-> Len(wr.chunk_buffer) ]
    IN  Done([taken EXCEPT
                !.writer = @ \o write_chunk_record(chunk),
                !.chunk_indices = Append(@, chunk_index),
                !.chunk_message_start_time = None,
                !.chunk_message_end_time = None,
                !.chunk_message_counts = EmptyMap])

\* the chunk buffer is taken (std::mem::take) before it is compressed, so it
\* is empty in the writer a failed compression leaves behind
Compressed(wr, taken, compression, compressed) ==
    IF ~compressed.ok THEN Failed(taken, compressed.err)
    ELSE WriteChunk(wr, taken, compute_crc(wr.chunk_buffer), compression, compressed.val)

flush_chunk(wr) ==
    IF wr.chunk_buffer = <<>> THEN Done(wr)
    ELSE Compressed(wr, [wr EXCEPT !.chunk_buffer = <<>>],
                    UnwrapOr(wr.chunk_compression, <<>>),
                    compress_chunk(UnwrapOr(wr.chunk_compression, <<>>), wr.chunk_buffer))

\* write_schema putting the record in front of what is buffered or written
write_schema_first(wr, schema) ==
    LET w1 == [wr EXCEPT !.schemas = MapInsert(@, schema.id, schema)]
    IN  IF IsSome(wr.chunk_size)
        THEN Done([w1 EXCEPT !.chunk_buffer = encode_schema_record(schema) \o @])
        ELSE Done([w1 EXCEPT !.writer = @ \o encode_schema_record(schema)])

write_schema(wr, schema) ==
    LET w1 == [wr EXCEPT !.schemas = MapInsert(@, schema.id, schema)]
    IN  IF IsSome(wr.chunk_size)
        THEN Done([w1 EXCEPT !.chunk_buffer = @ \o encode_schema_record(schema)])
        ELSE Done([w1 EXCEPT !.writer = @ \o encode_schema_record(schema)])

write_channel(wr, channel) ==
    LET w1 == [wr EXCEPT !.channels = MapInsert(@, channel.id, channel)]
    IN  IF IsSome(wr.chunk_size)
        THEN Done([w1 EXCEPT !.chunk_buffer = @ \o encode_channel_record(channel)])
        ELSE Done([w1 EXCEPT !.writer = @ \o encode_channel_record(channel)])

\* the Option<u64> that holds the smaller (larger) of its value and t
EarlierTime(o, t) == IF o = None \/ t < Unwrap(o) THEN Some(t) ELSE o

LaterTime(o, t) == IF o = None \/ t > Unwrap(o) THEN Some(t) ELSE o

\* write_message flushing only when the buffer is longer than chunk_size
write_message_late(wr, message) ==
    LET w1 == [wr EXCEPT
                 !.message_count = @ + 1,
                 !.channel_message_counts = MapIncrement(@, message.channel_id),
                 !.message_start_time = EarlierTime(@, message.log_time),
                 !.message_end_time = LaterTime(@, message.log_time)]
    IN  IF IsSome(wr.chunk_size)
        THEN LET w2 == [w1 EXCEPT
                          !.chunk_message_start_time = EarlierTime(@, message.log_time),
                          !.chunk_message_end_time = LaterTime(@, message.log_time),
                          !.chunk_message_counts = MapIncrement(@, message.channel_id),
                          !.chunk_buffer = @ \o encode_message_record(message)]
             IN  IF Len(w2.chunk_buffer) > Unwrap(wr.chunk_size)
                 THEN flush_chunk(w2)
                 ELSE Done(w2)
        ELSE Done([w1 EXCEPT !.writer = @ \o encode_message_record(message)])

write_message(wr, message) ==
    LET w1 == [wr EXCEPT
                 !.message_count = @ + 1,
                 !.channel_message_counts = MapIncrement(@, message.channel_id),
                 !.message_start_time = EarlierTime(@, message.log_time),
                 !.message_end_time = LaterTime(@, message.log_time)]
    IN  IF IsSome(wr.chunk_size)
        THEN LET w2 == [w1 EXCEPT
                          !.chunk_message_start_time = EarlierTime(@, message.log_time),
                          !.chunk_message_end_time = LaterTime(@, message.log_time),
                          !.chunk_message_counts = MapIncrement(@, message.channel_id),
                          !.chunk_buffer = @ \o encode_message_record(message)]
             IN  IF Len(w2.chunk_buffer) >= Unwrap(wr.chunk_size)
                 THEN flush_chunk(w2)
                 ELSE Done(w2)
        ELSE Done([w1 EXCEPT !.writer = @ \o encode_message_record(message)])

\* "Flush any pending chunk first", as write_attachment, write_metadata and close do
FlushPending(wr) ==
    IF IsSome(wr.chunk_size) /\ wr.chunk_buffer # <<>> THEN flush_chunk(wr) ELSE Done(wr)

\* The `?` operator on a call of the writer: the failure returned with the
\* writer as the call left it, or the rest of the function on that writer
TryWrite(f, Rest(_)) == IF f.ok THEN Rest(f.w) ELSE f

\* write_attachment without the flush of the pending chunk
write_attachment_unflushed(wr, attachment) ==
    Done([wr EXCEPT
            !.writer = @ \o write_attachment_record(attachment),
            !.attachment_indices = Append(@,
                [ offset |-> Len(wr.writer),
                  length |-> Len(write_attachment_record(attachment)),
                  log_time |-> attachment.log_time,
                  create_time |-> attachment.create_time,
                  data_size |-> Len(attachment.data),
                  name |-> attachment.name,
                  media_type |-> attachment.media_type ])])

write_attachment(wr, attachment) ==
    TryWrite(FlushPending(wr), LAMBDA flushed :
        Done([flushed EXCEPT
                !.writer = @ \o write_attachment_record(attachment),
                !.attachment_indices = Append(@,
                    [ offset |-> Len(flushed.writer),
                      length |-> Len(write_attachment_record(attachment)),
                      log_time |-> attachment.log_time,
                      create_time |-> attachment.create_time,
                      data_size |-> Len(attachment.data),
                      name |-> attachment.name,
                      media_type |-> attachment.media_type ])]))

write_metadata(wr, metadata) ==
    TryWrite(FlushPending(wr), LAMBDA flushed :
        Done([flushed EXCEPT
                !.writer = @ \o write_metadata_record(metadata),
                !.metadata_indices = Append(@,
                    [ offset |-> Len(flushed.writer),
                      length |-> Len(write_metadata_record(metadata)),
                      name |-> metadata.name ])]))

\* the summary section, which starts at the offset the footer records
SummarySection(wr, schema_order, channel_order, count_order) ==
    Concat([i \in 1..Len(schema_order) |->
                encode_schema_record(wr.schemas[schema_order[i]])])
    \o Concat([i \in 1..Len(channel_order) |->
                encode_channel_record(wr.channels[channel_order[i]])])
    \o Concat([i \in 1..Len(wr.chunk_indices) |->
                write_chunk_index_record(wr.chunk_indices[i])])
    \o Concat([i \in 1..Len(wr.attachment_indices) |->
                write_attachment_index_record(wr.attachment_indices[i])])
    \o Concat([i \in 1..Len(wr.metadata_indices) |->
                write_metadata_index_record(wr.metadata_indices[i])])
    \o write_statistics_record(
          [ message_count |-> wr.message_count,
            schema_count |-> Cardinality(DOMAIN wr.schemas),
            channel_count |-> Cardinality(DOMAIN wr.channels),
            attachment_count |-> Len(wr.attachment_indices),
            metadata_count |-> Len(wr.metadata_indices),
            chunk_count |-> Len(wr.chunk_indices),
            message_start_time |-> UnwrapOr(wr.message_start_time, 0),
            message_end_time |-> UnwrapOr(wr.message_end_time, 0),
            channel_message_counts |-> wr.channel_message_counts ],
          count_order)

\* schema_order, channel_order, count_order: the orders in which the HashMaps
\* schemas, channels and channel_message_counts are iterated
close(wr, schema_order, channel_order, count_order) ==
    TryWrite(FlushPending(wr), LAMBDA flushed :
        Done([flushed EXCEPT
                !.writer =
                    @ \o write_data_end_record([data_section_crc |-> 0])
                    \o SummarySection(flushed, schema_order, channel_order, count_order)
                    \o write_footer_record(
                          [ summary_start |->
                                Len(flushed.writer)
                                + Len(write_data_end_record([data_section_crc |-> 0])),
                            summary_offset_start |-> 0,
                            summary_crc |-> 0 ])
                    \o MAGIC_BYTES]))

(***************************************************************************)
(* Reader (io/reader.rs): BytesReader and FileReader read, peek and seek   *)
(* alike over their bytes `data` from a position `pos`.                    *)
(***************************************************************************)
At(v, pos) == [ok |-> TRUE, val |-> v, pos |-> pos]

\* an error of a reader call, and the position the reader is left at
ErrAt(e, pos) == [ok |-> FALSE, err |-> e, pos |-> pos]

BufferTooSmall(needed, available) ==
    [kind |-> "BufferTooSmall", needed |-> needed, available |-> available]

Reader_read(data, pos, n) ==
    IF n > Len(data) - pos THEN ErrAt(BufferTooSmall(n, Len(data) - pos), pos)
    ELSE At(Slice(data, pos, n), pos + n)

Reader_peek(data, pos, n) == Slice(data, pos, Min(n, Len(data) - pos))

Reader_seek(data, pos) == Min(pos, Len(data))

Reader_seek_from_current(data, pos, offset) ==
    IF offset >= 0 THEN Min(pos + offset, Len(data))
    ELSE Min(Max(pos + offset, 0), Len(data))

Reader_seek_from_end(data, offset) == Min(Max(Len(data) + offset, 0), Len(data))

(***************************************************************************)
(* The body of a record is read through a std::io::Cursor over its own     *)
(* buffer `buf`; a read past the end of the buffer is an io::Error, which  *)
(* the parser returns as PybagError::Io.                                   *)
(***************************************************************************)
IoError == Err([kind |-> "Io"])

InvalidMcap == Err([kind |-> "InvalidMcap"])

\* The `?` operator: the error r returned as it is, or the rest of the
\* function with the value r
Try(r, Rest(_)) == IF r.ok THEN Rest(r) ELSE r

\* `?` on a read of a record body: the error is returned with the reader left
\* at pos, after the body
TryAt(r, pos, Rest(_)) == IF r.ok THEN Rest(r) ELSE ErrAt(r.err, pos)

\* cursor.read_u16/u32/u64::<LittleEndian>() and read_u8()
Cursor_read_uint(buf, c, n) ==
    IF n > Len(buf) - c THEN IoError ELSE At(FromLE(Slice(buf, c, n)), c + n)

\* read_exact of n bytes
Cursor_read_exact(buf, c, n) ==
    IF n > Len(buf) - c THEN IoError ELSE At(Slice(buf, c, n), c + n)

\* String::from_utf8: the strings of the model are ASCII, and a byte above
\* 127 stands for a sequence that is not UTF-8
IsUtf8(bytes) == \A i \in 1..Len(bytes) : bytes[i] < 128

read_string_cursor(buf, c) ==
    Try(Cursor_read_uint(buf, c, 4), LAMBDA len :
    Try(Cursor_read_exact(buf, len.pos, len.val), LAMBDA bytes :
        IF ~IsUtf8(bytes.val) THEN InvalidMcap ELSE bytes))

RECURSIVE MapStringStringLoop(_, _, _, _)
MapStringStringLoop(buf, c, remaining, map) ==
    IF remaining <= 0 THEN At(map, c)
    ELSE Try(read_string_cursor(buf, c), LAMBDA key :
         Try(read_string_cursor(buf, key.pos), LAMBDA val :
             MapStringStringLoop(buf, val.pos,
                 remaining - (4 + Len(key.val) + 4 + Len(val.val)),
                 MapInsert(map, key.val, val.val))))

read_map_string_string_cursor(buf, c) ==
    Try(Cursor_read_uint(buf, c, 4), LAMBDA map_len :
        MapStringStringLoop(buf, map_len.pos, map_len.val, EmptyMap))

RECURSIVE MapU16U64Loop(_, _, _, _)
MapU16U64Loop(buf, c, remaining, map) ==
    IF remaining <= 0 THEN At(map, c)
    ELSE Try(Cursor_read_uint(buf, c, 2), LAMBDA key :
         Try(Cursor_read_uint(buf, key.pos, 8), LAMBDA val :
             MapU16U64Loop(buf, val.pos, remaining - (2 + 8),
                           MapInsert(map, key.val, val.val))))

read_map_u16_u64_cursor(buf, c) ==
    Try(Cursor_read_uint(buf, c, 4), LAMBDA map_len :
        MapU16U64Loop(buf, map_len.pos, map_len.val, EmptyMap))

\* a length of n bytes, then read_exact of as many bytes
ReadSized(buf, c, n) ==
    Try(Cursor_read_uint(buf, c, n), LAMBDA len : Cursor_read_exact(buf, len.pos, len.val))

\* One field of a record body, by the way the parser reads it:
\*   "u8" "u16" "u32" "u64"  cursor.read_uN::<LittleEndian>()
\*   "crc"                   a u32 kept as its bytes
\*   "string"                read_string_cursor
\*   "bytes32" "bytes64"     a u32 (u64) length, then read_exact of as many bytes
\*   "rest"                  read_exact of record_len - 22 bytes (a message's data)
\*   "map_ss" "map_u16_u64"  the two map readers
ReadField(buf, c, type) ==
    CASE type = "u8" -> Cursor_read_uint(buf, c, 1)
      [] type = "u16" -> Cursor_read_uint(buf, c, 2)
      [] type = "u32" -> Cursor_read_uint(buf, c, 4)
      [] type = "u64" -> Cursor_read_uint(buf, c, 8)
      [] type = "crc" -> Cursor_read_exact(buf, c, 4)
      [] type = "string" -> read_string_cursor(buf, c)
      [] type = "bytes32" -> ReadSized(buf, c, 4)
      [] type = "bytes64" -> ReadSized(buf, c, 8)
      [] type = "rest" -> Cursor_read_exact(buf, c, Len(buf) - 22)
      [] type = "map_ss" -> read_map_string_string_cursor(buf, c)
      [] type = "map_u16_u64" -> read_map_u16_u64_cursor(buf, c)

\* The fields of `layout` (pairs <<name, type>>) read one after the other from
\* offset c of buf, into a record
RECURSIVE ReadFields(_, _, _, _, _)
ReadFields(buf, c, layout, i, rec) ==
    IF i > Len(layout) THEN At(rec, c)
    ELSE Try(ReadField(buf, c, layout[i][2]), LAMBDA f :
             ReadFields(buf, f.pos, layout, i + 1, MapInsert(rec, layout[i][1], f.val)))

(***************************************************************************)
(* McapRecordParser (mcap/parser.rs).                                      *)
(***************************************************************************)
UnexpectedRecordType(expected, got) ==
    [kind |-> "UnexpectedRecordType", expected |-> expected, got |-> got]

\* peek_record: Some(opcode), or None at the end of the data
peek_record(data, pos) ==
    IF Reader_peek(data, pos, 1) = <<>> THEN None ELSE Some(Reader_peek(data, pos, 1)[1])

\* read_u8 and the opcode check, then read_u64: the declared length of the
\* record at pos, the reader left after the length
ReadLength(data, pos, opcode) ==
    Try(Reader_read(data, pos, 1), LAMBDA record_type :
        IF record_type.val[1] # opcode
        THEN ErrAt(UnexpectedRecordType(opcode, record_type.val[1]), record_type.pos)
        ELSE Try(Reader_read(data, record_type.pos, 8), LAMBDA record_len :
                 At(FromLE(record_len.val), record_len.pos)))

\* a faulty reader: the fields are decoded from the rest of the file, not from
\* a buffer of record_len bytes
ReadBody_shared(data, pos, opcode) ==
    Try(ReadLength(data, pos, opcode), LAMBDA record_len :
    Try(Reader_read(data, record_len.pos, record_len.val), LAMBDA body :
        At(SubSeq(data, record_len.pos + 1, Len(data)), body.pos)))

\* ... and reader.read(record_len): the body of the record in a buffer of its
\* own, the reader left after it
ReadBody(data, pos, opcode) ==
    Try(ReadLength(data, pos, opcode), LAMBDA record_len :
        Reader_read(data, record_len.pos, record_len.val))

\* a parse_* function: the body, then its fields; the reader is left after the
\* body also when a field fails
ParseRecord(data, pos, opcode, layout) ==
    Try(ReadBody(data, pos, opcode), LAMBDA body :
    TryAt(ReadFields(body.val, 0, layout, 1, EmptyMap), body.pos, LAMBDA fields :
        At(fields.val, body.pos)))

skip_record(data, pos) ==
    Try(Reader_read(data, pos, 1), LAMBDA record_type :
    Try(Reader_read(data, record_type.pos, 8), LAMBDA len :
        At(<<>>, Reader_seek_from_current(data, len.pos, FromLE(len.val)))))

\* a faulty check: only the first four bytes are compared
parse_magic_bytes_short(data, pos) ==
    Try(Reader_read(data, pos, 8), LAMBDA magic :
        IF SubSeq(magic.val, 1, 4) # SubSeq(MAGIC_BYTES, 1, 4)
        THEN ErrAt([kind |-> "InvalidMagicBytes"], magic.pos)
        ELSE At(magic.val[6], magic.pos))

parse_magic_bytes(data, pos) ==
    Try(Reader_read(data, pos, 8), LAMBDA magic :
        IF SubSeq(magic.val, 1, 5) # SubSeq(MAGIC_BYTES, 1, 5)
           \/ SubSeq(magic.val, 7, 8) # SubSeq(MAGIC_BYTES, 7, 8)
        THEN ErrAt([kind |-> "InvalidMagicBytes"], magic.pos)
        ELSE At(magic.val[6], magic.pos))

parse_header(data, pos) ==
    ParseRecord(data, pos, OpHeader, << <<"profile", "string">>, <<"library", "string">> >>)

\* parse_footer taking a body of any length for a footer
parse_footer_any(data, pos) ==
    Try(ReadLength(data, pos, OpFooter), LAMBDA record_len :
        Try(Reader_read(data, record_len.pos, record_len.val), LAMBDA body :
             TryAt(ReadFields(body.val, 0,
                       << <<"summary_start", "u64">>, <<"summary_offset_start", "u64">>,
                          <<"summary_crc", "u32">> >>, 1, EmptyMap),
                   body.pos, LAMBDA fields : At(fields.val, body.pos))))

parse_footer(data, pos) ==
    Try(ReadLength(data, pos, OpFooter), LAMBDA record_len :
        IF record_len.val # 20 THEN ErrAt(InvalidMcap.err, record_len.pos)
        ELSE Try(Reader_read(data, record_len.pos, record_len.val), LAMBDA body :
             TryAt(ReadFields(body.val, 0,
                       << <<"summary_start", "u64">>, <<"summary_offset_start", "u64">>,
                          <<"summary_crc", "u32">> >>, 1, EmptyMap),
                   body.pos, LAMBDA fields : At(fields.val, body.pos))))

\* Ok(None) for the schema id 0, which is to be ignored
parse_schema(data, pos) ==
    Try(ReadBody(data, pos, OpSchema), LAMBDA body :
    TryAt(Cursor_read_uint(body.val, 0, 2), body.pos, LAMBDA id :
        IF id.val = 0 THEN At(None, body.pos)
        ELSE TryAt(ReadFields(body.val, id.pos,
                       << <<"name", "string">>, <<"encoding", "string">>,
                          <<"data", "bytes32">> >>, 1, [id |-> id.val]),
                   body.pos, LAMBDA fields : At(Some(fields.val), body.pos))))

parse_channel(data, pos) ==
    ParseRecord(data, pos, OpChannel,
        << <<"id", "u16">>, <<"schema_id", "u16">>, <<"topic", "string">>,
           <<"message_encoding", "string">>, <<"metadata", "map_ss">> >>)

parse_message(data, pos) ==
    ParseRecord(data, pos, OpMessage,
        << <<"channel_id", "u16">>, <<"sequence", "u32">>, <<"log_time", "u64">>,
           <<"publish_time", "u64">>, <<"data", "rest">> >>)

parse_chunk(data, pos) ==
    ParseRecord(data, pos, OpChunk,
        << <<"message_start_time", "u64">>, <<"message_end_time", "u64">>,
           <<"uncompressed_size", "u64">>, <<"uncompressed_crc", "crc">>,
           <<"compression", "string">>, <<"records", "bytes64">> >>)

parse_chunk_index(data, pos) ==
    ParseRecord(data, pos, OpChunkIndex,
        << <<"message_start_time", "u64">>, <<"message_end_time", "u64">>,
           <<"chunk_start_offset", "u64">>, <<"chunk_length", "u64">>,
           <<"message_index_offsets", "map_u16_u64">>,
           <<"message_index_length", "u64">>, <<"compression", "string">>,
           <<"compressed_size", "u64">>, <<"uncompressed_size", "u64">> >>)

parse_attachment(data, pos) ==
    ParseRecord(data, pos, OpAttachment,
        << <<"log_time", "u64">>, <<"create_time", "u64">>, <<"name", "string">>,
           <<"media_type", "string">>, <<"data", "bytes64">>, <<"crc", "u32">> >>)

parse_attachment_index(data, pos) ==
    ParseRecord(data, pos, OpAttachmentIndex,
        << <<"offset", "u64">>, <<"length", "u64">>, <<"log_time", "u64">>,
           <<"create_time", "u64">>, <<"data_size", "u64">>, <<"name", "string">>,
           <<"media_type", "string">> >>)

parse_metadata(data, pos) ==
    ParseRecord(data, pos, OpMetadata,
        << <<"name", "string">>, <<"metadata", "map_ss">> >>)

parse_metadata_index(data, pos) ==
    ParseRecord(data, pos, OpMetadataIndex,
        << <<"offset", "u64">>, <<"length", "u64">>, <<"name", "string">> >>)

parse_statistics(data, pos) ==
    ParseRecord(data, pos, OpStatistics,
        << <<"message_count", "u64">>, <<"schema_count", "u16">>,
           <<"channel_count", "u32">>, <<"attachment_count", "u32">>,
           <<"metadata_count", "u32">>, <<"chunk_count", "u32">>,
           <<"message_start_time", "u64">>, <<"message_end_time", "u64">>,
           <<"channel_message_counts", "map_u16_u64">> >>)

(***************************************************************************)
(* McapReader (mcap/reader.rs).                                            *)
(***************************************************************************)
\* slice.sort_by(|a, b| a.key.cmp(&b.key)), or with a and b exchanged when
\* `reverse`: a stable sort, so elements with equal keys keep their order.
\* `key` names the field compared; the result is built by stable insertion.
RECURSIVE SortInsert(_, _, _, _)
SortInsert(sorted, x, key, reverse) ==
    IF sorted = <<>> THEN <<x>>
    ELSE IF (IF reverse THEN x[key] > sorted[Len(sorted)][key]
             ELSE x[key] < sorted[Len(sorted)][key])
    THEN Append(SortInsert(SubSeq(sorted, 1, Len(sorted) - 1), x, key, reverse),
                sorted[Len(sorted)])
    ELSE Append(sorted, x)

RECURSIVE SortFrom(_, _, _, _, _)
SortFrom(seq, i, sorted, key, reverse) ==
    IF i > Len(seq) THEN sorted
    ELSE SortFrom(seq, i + 1, SortInsert(sorted, seq[i], key, reverse), key, reverse)

sort_by(seq, key, reverse) == SortFrom(seq, 1, <<>>, key, reverse)

McapSummary_default ==
    [ schemas |-> EmptyMap, channels |-> EmptyMap, statistics |-> None,
      chunk_indices |-> <<>>, attachment_indices |-> <<>>, metadata_indices |-> <<>> ]

\* one parsed record into the summary, or the error of the parse
SummaryStep(summary, r, field, how) ==
    IF ~r.ok THEN r
    ELSE At(CASE how = "insert" ->
                   [summary EXCEPT ![field] = MapInsert(@, r.val.id, r.val)]
              [] how = "insert_some" ->
                   IF r.val = None THEN summary
                   ELSE [summary EXCEPT ![field] = MapInsert(@, Unwrap(r.val).id, Unwrap(r.val))]
              [] how = "set" -> [summary EXCEPT ![field] = Some(r.val)]
              [] how = "push" -> [summary EXCEPT ![field] = Append(@, r.val)]
              [] how = "skip" -> summary,
            r.pos)

RECURSIVE SummaryLoop(_, _, _)
SummaryLoop(data, pos, summary) ==
    IF peek_record(data, pos) = None \/ Unwrap(peek_record(data, pos)) = OpFooter
    THEN At(summary, pos)
    ELSE Try(CASE Unwrap(peek_record(data, pos)) = OpSchema ->
                    SummaryStep(summary, parse_schema(data, pos), "schemas", "insert_some")
               [] Unwrap(peek_record(data, pos)) = OpChannel ->
                    SummaryStep(summary, parse_channel(data, pos), "channels", "insert")
               [] Unwrap(peek_record(data, pos)) = OpStatistics ->
                    SummaryStep(summary, parse_statistics(data, pos), "statistics", "set")
               [] Unwrap(peek_record(data, pos)) = OpChunkIndex ->
                    SummaryStep(summary, parse_chunk_index(data, pos),
                                "chunk_indices", "push")
               [] Unwrap(peek_record(data, pos)) = OpAttachmentIndex ->
                    SummaryStep(summary, parse_attachment_index(data, pos),
                                "attachment_indices", "push")
               [] Unwrap(peek_record(data, pos)) = OpMetadataIndex ->
                    SummaryStep(summary, parse_metadata_index(data, pos),
                                "metadata_indices", "push")
               [] OTHER -> SummaryStep(summary, skip_record(data, pos), "", "skip"),
             LAMBDA step : SummaryLoop(data, step.pos, step.val))

parse_summary(data, footer) ==
    SummaryLoop(data, Reader_seek(data, footer.summary_start), McapSummary_default)

RECURSIVE ScanLoop(_, _, _)
ScanLoop(data, pos, summary) ==
    IF peek_record(data, pos) = None
       \/ Unwrap(peek_record(data, pos)) \in {OpDataEnd, OpFooter}
    THEN At(summary, pos)
    ELSE Try(CASE Unwrap(peek_record(data, pos)) = OpSchema ->
                    SummaryStep(summary, parse_schema(data, pos), "schemas", "insert_some")
               [] Unwrap(peek_record(data, pos)) = OpChannel ->
                    SummaryStep(summary, parse_channel(data, pos), "channels", "insert")
               [] OTHER -> SummaryStep(summary, skip_record(data, pos), "", "skip"),
             LAMBDA step : ScanLoop(data, step.pos, step.val))

scan_data_section(data) ==
    Try(skip_record(data, Reader_seek(data, 8)), LAMBDA header :
        ScanLoop(data, header.pos, McapSummary_default))

\* topic -> channel id, collected from the channels (topics are unique per file)
TopicToChannel(channels) ==
    [t \in {channels[id].topic : id \in DOMAIN channels} |->
        CHOOSE id \in DOMAIN channels : channels[id].topic = t]

\* McapReader::new: Ok(the reader) or the error
McapReader_new(data, enable_crc_check) ==
    Try(parse_magic_bytes(data, 0), LAMBDA magic :
    Try(parse_header(data, magic.pos), LAMBDA header :
    Try(parse_footer(data, Reader_seek_from_end(data, -37)), LAMBDA footer :
    Try(parse_magic_bytes(data, footer.pos), LAMBDA magic_end :
    Try(IF footer.val.summary_start > 0
        THEN parse_summary(data, footer.val)
        ELSE scan_data_section(data), LAMBDA summary :
        Ok([ reader |-> data,
             position |-> summary.pos,
             header |-> header.val,
             footer |-> footer.val,
             summary |-> summary.val,
             enable_crc_check |-> enable_crc_check,
             topic_to_channel |-> TopicToChannel(summary.val.channels) ]))))))

\* Option<u64>::map_or(true, |t| v >= t) and its mirror
NotBefore(v, start_time) == start_time = None \/ v >= Unwrap(start_time)

NotAfter(v, end_time) == end_time = None \/ v <= Unwrap(end_time)

\* channel_ids.map_or(true, |ids| ids.contains(&msg.channel_id))
channel_ok(msg, channel_ids) ==
    channel_ids = None \/ msg.channel_id \in Unwrap(channel_ids)

time_ok(msg, start_time, end_time) ==
    NotBefore(msg.log_time, start_time) /\ NotAfter(msg.log_time, end_time)

\* a faulty filter: chunks that only touch a bound are left out
ChunkInRange_strict(ci, start_time, end_time) ==
    /\ start_time = None \/ ci.message_end_time > Unwrap(start_time)
    /\ end_time = None \/ ci.message_start_time < Unwrap(end_time)

\* the filter of the chunk indices by the time range
ChunkInRange(ci, start_time, end_time) ==
    NotBefore(ci.message_end_time, start_time) /\ NotAfter(ci.message_start_time, end_time)

\* chunk_indices.iter().filter(the time range).collect()
relevant_chunks(chunk_indices, start_time, end_time) ==
    SelectSeq(chunk_indices, LAMBDA ci : ChunkInRange(ci, start_time, end_time))

has_relevant_channel(chunk_index, channel_ids) ==
    channel_ids = None
    \/ \E id \in Unwrap(channel_ids) : id \in DOMAIN chunk_index.message_index_offsets

\* messages.push(msg) if the message passes the filters
Collect(messages, msg, channel_ids, start_time, end_time) ==
    IF channel_ok(msg, channel_ids) /\ time_ok(msg, start_time, end_time)
    THEN Append(messages, msg) ELSE messages

\* the loop over the records of one decompressed chunk (a BytesReader of its own)
RECURSIVE ChunkScan(_, _, _, _, _, _)
ChunkScan(chunk_data, pos, channel_ids, start_time, end_time, messages) ==
    IF peek_record(chunk_data, pos) = None THEN At(messages, pos)
    ELSE IF Unwrap(peek_record(chunk_data, pos)) = OpMessage
    THEN Try(parse_message(chunk_data, pos), LAMBDA msg :
             ChunkScan(chunk_data, msg.pos, channel_ids, start_time, end_time,
                       Collect(messages, msg.val, channel_ids, start_time, end_time)))
    ELSE Try(skip_record(chunk_data, pos), LAMBDA skipped :
             ChunkScan(chunk_data, skipped.pos, channel_ids, start_time, end_time,
                       messages))

\* "Verify CRC if enabled"
\* a faulty check: the CRC is never compared
verify_crc_skipped(enable_crc_check, chunk, decompressed) == Ok(decompressed)

verify_crc(enable_crc_check, chunk, decompressed) ==
    IF enable_crc_check /\ chunk.uncompressed_crc # CrcZero
       /\ compute_crc(decompressed) # chunk.uncompressed_crc
    THEN Err([kind |-> "CrcMismatch", expected |-> chunk.uncompressed_crc,
              computed |-> compute_crc(decompressed)])
    ELSE Ok(decompressed)

\* the loop over the selected chunk indices; pos is the position of self.reader
RECURSIVE ChunkLoop(_, _, _, _, _, _, _, _, _)
ChunkLoop(rdr, chunks, i, pos, channel_ids, start_time, end_time, nd, messages) ==
    IF i > Len(chunks) THEN At(messages, pos)
    ELSE IF ~has_relevant_channel(chunks[i], channel_ids)
    THEN ChunkLoop(rdr, chunks, i + 1, pos, channel_ids, start_time, end_time, nd, messages)
    ELSE
    Try(parse_chunk(rdr.reader, Reader_seek(rdr.reader, chunks[i].chunk_start_offset)),
        LAMBDA chunk :
    TryAt(decompress_chunk(chunk.val.compression, chunk.val.records,
                           chunk.val.uncompressed_size, nd), chunk.pos,
        LAMBDA decompressed :
    TryAt(verify_crc(rdr.enable_crc_check, chunk.val, decompressed.val), chunk.pos,
        LAMBDA verified :
    TryAt(ChunkScan(verified.val, 0, channel_ids, start_time, end_time, messages),
          chunk.pos,
        LAMBDA scanned :
        ChunkLoop(rdr, chunks, i + 1, chunk.pos, channel_ids, start_time, end_time,
                  nd, scanned.val)))))

\* the linear scan of the data section, on self.reader
RECURSIVE LinearScan(_, _, _, _, _, _)
LinearScan(data, pos, channel_ids, start_time, end_time, messages) ==
    IF peek_record(data, pos) = None
       \/ Unwrap(peek_record(data, pos)) \in {OpDataEnd, OpFooter}
    THEN At(messages, pos)
    ELSE IF Unwrap(peek_record(data, pos)) = OpMessage
    THEN Try(parse_message(data, pos), LAMBDA msg :
             LinearScan(data, msg.pos, channel_ids, start_time, end_time,
                        Collect(messages, msg.val, channel_ids, start_time, end_time)))
    ELSE Try(skip_record(data, pos), LAMBDA skipped :
             LinearScan(data, skipped.pos, channel_ids, start_time, end_time, messages))

\* "Sort messages if requested"
\* a faulty sort: descending order as the ascending order back to front
sort_messages_flipped(collected, in_log_time_order, in_reverse) ==
    IF ~in_log_time_order THEN collected
    ELSE IF in_reverse THEN Reverse(sort_by(collected, "log_time", FALSE))
    ELSE sort_by(collected, "log_time", FALSE)

sort_messages(collected, in_log_time_order, in_reverse) ==
    IF in_log_time_order THEN sort_by(collected, "log_time", in_reverse) ELSE collected

\* a faulty loop: the chunks are visited in the order of the file
messages_in_file_order(rdr, channel_ids, start_time, end_time, in_log_time_order, in_reverse, nd) ==
    Try(IF rdr.summary.chunk_indices # <<>>
        THEN ChunkLoop(rdr, relevant_chunks(rdr.summary.chunk_indices, start_time, end_time),
                       1, rdr.position, channel_ids, start_time, end_time, nd, <<>>)
        ELSE Try(skip_record(rdr.reader, Reader_seek(rdr.reader, 8)), LAMBDA header :
                 LinearScan(rdr.reader, header.pos, channel_ids, start_time,
                            end_time, <<>>)),
        LAMBDA collected :
            At(sort_messages(collected.val, in_log_time_order, in_reverse),
               collected.pos))

\* messages whose linear scan starts where the last call left the reader
messages_unpositioned(rdr, channel_ids, start_time, end_time, in_log_time_order, in_reverse, nd) ==
    Try(IF rdr.summary.chunk_indices # <<>>
        THEN ChunkLoop(rdr,
                       sort_by(relevant_chunks(rdr.summary.chunk_indices,
                                               start_time, end_time),
                               "message_start_time", in_reverse),
                       1, rdr.position, channel_ids, start_time, end_time, nd, <<>>)
        ELSE LinearScan(rdr.reader, rdr.position, channel_ids, start_time,
                        end_time, <<>>),
        LAMBDA collected :
            At(sort_messages(collected.val, in_log_time_order, in_reverse),
               collected.pos))

\* McapReader::messages: Ok(the messages) or the error, and the position the
\* reader is left at.  channel_ids is None or Some(a set of ids).
messages(rdr, channel_ids, start_time, end_time, in_log_time_order, in_reverse, nd) ==
    Try(IF rdr.summary.chunk_indices # <<>>
        THEN ChunkLoop(rdr,
                       sort_by(relevant_chunks(rdr.summary.chunk_indices,
                                               start_time, end_time),
                               "message_start_time", in_reverse),
                       1, rdr.position, channel_ids, start_time, end_time, nd, <<>>)
        ELSE Try(skip_record(rdr.reader, Reader_seek(rdr.reader, 8)), LAMBDA header :
                 LinearScan(rdr.reader, header.pos, channel_ids, start_time,
                            end_time, <<>>)),
        LAMBDA collected :
            At(sort_messages(collected.val, in_log_time_order, in_reverse),
               collected.pos))

\* name_filter.map_or(true, |n| idx.name == n)
name_ok(idx, name_filter) == name_filter = None \/ idx.name = Unwrap(name_filter)

\* the loop of attachments (parse = "attachment") and of metadata (parse =
\* "metadata") over the index entries: seek to the offset of the entry and
\* parse the record there
RECURSIVE IndexLoop(_, _, _, _, _, _, _)
IndexLoop(data, indices, i, pos, name_filter, parse, records) ==
    IF i > Len(indices) THEN At(records, pos)
    ELSE IF ~name_ok(indices[i], name_filter)
    THEN IndexLoop(data, indices, i + 1, pos, name_filter, parse, records)
    ELSE Try(IF parse = "attachment"
             THEN parse_attachment(data, Reader_seek(data, indices[i].offset))
             ELSE parse_metadata(data, Reader_seek(data, indices[i].offset)),
             LAMBDA record :
                 IndexLoop(data, indices, i + 1, record.pos, name_filter, parse,
                           Append(records, record.val)))

\* McapReader::attachments
McapReader_attachments(rdr, name_filter) ==
    IndexLoop(rdr.reader, rdr.summary.attachment_indices, 1, rdr.position,
              name_filter, "attachment", <<>>)

\* McapReader::metadata
McapReader_metadata(rdr, name_filter) ==
    IndexLoop(rdr.reader, rdr.summary.metadata_indices, 1, rdr.position,
              name_filter, "metadata", <<>>)

\* McapReader::statistics
McapReader_statistics(rdr) == rdr.summary.statistics

\* start_time falling back to 0 when there is no Statistics record
McapReader_start_time_or_zero(rdr) ==
    IF rdr.summary.statistics = None THEN Some(0)
    ELSE Some(Unwrap(rdr.summary.statistics).message_start_time)

\* McapReader::start_time
McapReader_start_time(rdr) ==
    IF rdr.summary.statistics = None THEN None
    ELSE Some(Unwrap(rdr.summary.statistics).message_start_time)

\* McapReader::end_time
McapReader_end_time(rdr) ==
    IF rdr.summary.statistics = None THEN None
    ELSE Some(Unwrap(rdr.summary.statistics).message_end_time)

\* McapReader::message_count
McapReader_message_count(rdr, topic) ==
    IF topic \notin DOMAIN rdr.topic_to_channel THEN None
    ELSE IF rdr.summary.statistics = None THEN None
    ELSE IF rdr.topic_to_channel[topic]
              \in DOMAIN Unwrap(rdr.summary.statistics).channel_message_counts
    THEN Some(Unwrap(rdr.summary.statistics)
                  .channel_message_counts[rdr.topic_to_channel[topic]])
    ELSE None

(***************************************************************************)
(* FastMcapReader (mcap/zerocopy.rs) over the mapped bytes `data`.  A       *)
(* SliceView of data[a..] is a position in data; every view ends where data *)
(* ends.                                                                   *)
(***************************************************************************)
\* SliceView::slice: the n bytes at pos.  skip moves the position without a
\* check, and behind the end `available` underflows: a panic or a wrapped
\* value, as the build has it (overflow = "panic" | "wrap")
View_slice(data, pos, n, overflow) ==
    IF pos + n <= Len(data) THEN At(Slice(data, pos, n), pos + n)
    ELSE IF pos > Len(data) /\ overflow = "panic" THEN ErrAt([kind |-> "Panic"], pos)
    ELSE ErrAt(BufferTooSmall(n, IF pos > Len(data) THEN Huge ELSE Len(data) - pos), pos)

\* read_u8, read_u16_le, read_u32_le and read_u64_le one after the other:
\* the values of fields of sizes[i] bytes
RECURSIVE View_read(_, _, _, _, _, _)
View_read(data, pos, sizes, i, values, overflow) ==
    IF i > Len(sizes) THEN At(values, pos)
    ELSE Try(View_slice(data, pos, sizes[i], overflow), LAMBDA field :
             View_read(data, field.pos, sizes, i + 1,
                       Append(values, FromLE(field.val)), overflow))

\* the ChunkIndex branch of parse_summary: the ChunkMeta read at pos
ChunkMeta(data, pos, overflow) ==
    Try(View_read(data, pos, <<8, 8, 8, 8, 4>>, 1, <<>>, overflow), LAMBDA head :
    Try(View_read(data, head.pos + head.val[5], <<8, 4>>, 1, <<>>, overflow),
        LAMBDA index :
    Try(View_slice(data, index.pos, index.val[2], overflow), LAMBDA compression :
    Try(View_read(data, compression.pos, <<8, 8>>, 1, <<>>, overflow), LAMBDA sizes :
        At([ offset |-> head.val[3],
             message_start_time |-> head.val[1],
             message_end_time |-> head.val[2],
             compression |-> IF IsUtf8(compression.val) THEN compression.val ELSE <<>>,
             compressed_size |-> sizes.val[1],
             uncompressed_size |-> sizes.val[2] ],
           sizes.pos)))))

\* FastMcapReader::parse_summary: the loop over the view of data[start..]
RECURSIVE FastSummaryLoop(_, _, _, _)
FastSummaryLoop(data, pos, chunks, overflow) ==
    IF pos >= Len(data) \/ Len(data) - pos <= 9 THEN At(chunks, pos)
    ELSE IF Len(data) - (pos + 9) < FromLE(Slice(data, pos + 1, 8)) THEN At(chunks, pos + 9)
    ELSE IF data[pos + 1] = OpChunkIndex
    THEN Try(ChunkMeta(data, pos + 9, overflow), LAMBDA meta :
             FastSummaryLoop(data, meta.pos, Append(chunks, meta.val), overflow))
    ELSE IF data[pos + 1] = OpFooter THEN At(chunks, pos + 9)
    ELSE FastSummaryLoop(data, pos + 9 + FromLE(Slice(data, pos + 1, 8)), chunks,
                         overflow)

\* the end of parse_structure: data_start, data_end and the chunks
Structure(data, summary_start, header_len, overflow) ==
    IF summary_start > 0 /\ summary_start < Len(data)
    THEN Try(FastSummaryLoop(data, summary_start, <<>>, overflow), LAMBDA chunks :
             Ok([ mmap |-> data, chunks |-> chunks.val,
                  data_start |-> 8 + 1 + 8 + header_len,
                  data_end |-> summary_start ]))
    ELSE Ok([ mmap |-> data, chunks |-> <<>>,
              data_start |-> 8 + 1 + 8 + header_len,
              data_end |-> IF summary_start > 0 THEN summary_start
                           ELSE Len(data) - 37 ])

\* FastMcapReader::open on a file of bytes `data`: parse_structure
FastMcapReader_open(data, overflow) ==
    IF Len(data) < 8 \/ Slice(data, 0, 5) # Slice(MAGIC_BYTES, 0, 5)
       \/ Slice(data, 6, 2) # Slice(MAGIC_BYTES, 6, 2)
    THEN Err([kind |-> "InvalidMagicBytes"])
    ELSE IF Len(data) < 45 THEN InvalidMcap
    ELSE IF data[Len(data) - 37 + 1] # OpFooter THEN InvalidMcap
    ELSE IF FromLE(Slice(data, Len(data) - 36, 8)) # 20 THEN InvalidMcap
    ELSE IF data[8 + 1] # OpHeader THEN InvalidMcap
    ELSE Structure(data, FromLE(Slice(data, Len(data) - 28, 8)),
                   FromLE(Slice(data, 9, 8)), overflow)

\* an iterator that stops one DataEnd record short of the end of the data
iter_messages_short(fast) ==
    [position |-> fast.data_start, end |-> fast.data_end - 13]

\* DirectMessageIterator::new
iter_messages(fast) == [position |-> fast.data_start, end |-> fast.data_end]

\* data[i] with i at or behind data.len(), or a range data[a..b] with a > b
\* or b behind data.len(): the call panics
Panicked == <<"Panic">>

\* DirectMessageIterator::next: the item, None or Some(MessageRef), and the
\* iterator it leaves; the data of a MessageRef is the slice
\* data[data_start..data_end] of the mapped file.  The iterator indexes the
\* mapped bytes without a check, up to `end`.
RECURSIVE DirectMessageIterator_next(_, _)
DirectMessageIterator_next(data, it) ==
    IF ~(it.position + 9 < it.end) THEN [item |-> None, it |-> it]
    ELSE IF it.position + 9 > Len(data) THEN [item |-> Panicked, it |-> it]
    ELSE IF it.position + 9 + FromLE(Slice(data, it.position + 1, 8)) > it.end
    THEN [item |-> None, it |-> [it EXCEPT !.position = @ + 9]]
    ELSE IF data[it.position + 1] = OpMessage
            /\ FromLE(Slice(data, it.position + 1, 8)) >= 22
            /\ it.position + 9 + FromLE(Slice(data, it.position + 1, 8)) > Len(data)
    THEN [item |-> Panicked, it |-> [it EXCEPT !.position = @ + 9]]
    ELSE IF data[it.position + 1] = OpMessage
            /\ FromLE(Slice(data, it.position + 1, 8)) >= 22
    THEN [ item |-> Some(
               [ channel_id |-> FromLE(Slice(data, it.position + 9, 2)),
                 sequence |-> FromLE(Slice(data, it.position + 11, 4)),
                 log_time |-> FromLE(Slice(data, it.position + 15, 8)),
                 publish_time |-> FromLE(Slice(data, it.position + 23, 8)),
                 data_start |-> it.position + 9 + 22,
                 data_end |-> it.position + 9 + FromLE(Slice(data, it.position + 1, 8)) ]),
           it |-> [it EXCEPT !.position =
                       @ + 9 + FromLE(Slice(data, it.position + 1, 8))] ]
    ELSE IF data[it.position + 1] \in {OpDataEnd, OpFooter}
    THEN [item |-> None, it |-> [it EXCEPT !.position = @ + 9]]
    ELSE DirectMessageIterator_next(data,
             [it EXCEPT !.position = @ + 9 + FromLE(Slice(data, it.position + 1, 8))])

\* the items of the iterator up to its first None
RECURSIVE Items(_, _)
Items(data, it) ==
    IF DirectMessageIterator_next(data, it).item \in {None, Panicked} THEN <<>>
    ELSE <<Unwrap(DirectMessageIterator_next(data, it).item)>>
         \o Items(data, DirectMessageIterator_next(data, it).it)

\* a call of next panics before the iterator returns its first None
RECURSIVE IteratorPanics(_, _)
IteratorPanics(data, it) ==
    \/ DirectMessageIterator_next(data, it).item = Panicked
    \/ /\ DirectMessageIterator_next(data, it).item # None
       /\ IteratorPanics(data, DirectMessageIterator_next(data, it).it)

\* `for item in reader.iter_messages()`: the items, or the panic
Iterated(data, it) ==
    IF IteratorPanics(data, it) THEN Err([kind |-> "Panic"]) ELSE Ok(Items(data, it))

\* the MessageRef of the message record whose body of record_len bytes is at
\* pos of view
MessageRef(view, pos, record_len) ==
    [ channel_id |-> FromLE(Slice(view, pos, 2)),
      sequence |-> FromLE(Slice(view, pos + 2, 4)),
      log_time |-> FromLE(Slice(view, pos + 6, 8)),
      publish_time |-> FromLE(Slice(view, pos + 14, 8)),
      data |-> Slice(view, pos + 22, record_len - 22) ]

\* the loop of for_each_message over a SliceView of the bytes `view`: the
\* data section (direct), or a decompressed chunk
RECURSIVE ViewLoop(_, _, _, _)
ViewLoop(view, pos, refs, direct) ==
    IF pos >= Len(view) \/ Len(view) - pos <= 9 THEN refs
    ELSE IF Len(view) - (pos + 9) < FromLE(Slice(view, pos + 1, 8)) THEN refs
    ELSE IF view[pos + 1] = OpMessage /\ FromLE(Slice(view, pos + 1, 8)) >= 22
    THEN ViewLoop(view, pos + 9 + FromLE(Slice(view, pos + 1, 8)),
                  Append(refs, MessageRef(view, pos + 9, FromLE(Slice(view, pos + 1, 8)))),
                  direct)
    ELSE IF direct /\ view[pos + 1] \in {OpDataEnd, OpFooter} THEN refs
    ELSE ViewLoop(view, pos + 9 + FromLE(Slice(view, pos + 1, 8)), refs, direct)

\* "Chunk-based iteration": the loop over self.chunks
RECURSIVE ForEachChunk(_, _, _, _, _)
ForEachChunk(fast, i, refs, overflow, nd) ==
    IF i > Len(fast.chunks) THEN Ok(refs)
    ELSE IF fast.chunks[i].offset + 9 > Len(fast.mmap)
    THEN ForEachChunk(fast, i + 1, refs, overflow, nd)
    ELSE IF fast.mmap[fast.chunks[i].offset + 1] # OpChunk
    THEN ForEachChunk(fast, i + 1, refs, overflow, nd)
    ELSE IF Len(fast.mmap) - (fast.chunks[i].offset + 9)
               < FromLE(Slice(fast.mmap, fast.chunks[i].offset + 1, 8))
    THEN ForEachChunk(fast, i + 1, refs, overflow, nd)
    ELSE
    Try(View_read(fast.mmap, fast.chunks[i].offset + 9 + 28, <<4>>, 1, <<>>, overflow),
        LAMBDA compression_len :
    Try(View_slice(fast.mmap, compression_len.pos, compression_len.val[1], overflow),
        LAMBDA compression :
    Try(View_read(fast.mmap, compression.pos, <<8>>, 1, <<>>, overflow),
        LAMBDA records_len :
    Try(View_slice(fast.mmap, records_len.pos, records_len.val[1], overflow),
        LAMBDA records_data :
    Try(decompress_chunk(IF IsUtf8(compression.val) THEN compression.val ELSE <<>>,
                         records_data.val, fast.chunks[i].uncompressed_size, nd),
        LAMBDA decompressed :
        ForEachChunk(fast, i + 1, ViewLoop(decompressed.val, 0, refs, FALSE),
                     overflow, nd))))))

\* FastMcapReader::for_each_message: Ok(the messages f was called with), the
\* error, or the panic of data[data_start..data_end]
for_each_message(fast, overflow, nd) ==
    IF fast.chunks # <<>> THEN ForEachChunk(fast, 1, <<>>, overflow, nd)
    ELSE IF fast.data_start > fast.data_end \/ fast.data_end > Len(fast.mmap)
    THEN Err([kind |-> "Panic"])
    ELSE Ok(ViewLoop(Slice(fast.mmap, fast.data_start, fast.data_end - fast.data_start),
                     0, <<>>, TRUE))

(***************************************************************************)
(* CDR (encoding/cdr.rs).  A primitive value is kept as its little-endian  *)
(* bytes; to_be_bytes / from_be_bytes reverse them.                        *)
(***************************************************************************)

Zeros(n) == [i \in 1..n |-> 0]

CdrEncoder_new(little_endian) ==
    [ data |-> <<0, IF little_endian THEN 1 ELSE 0, 0, 0>>,
      is_little_endian |-> little_endian ]

CdrEncoder_align(e, alignment) ==
    LET remainder == Len(e.data) % alignment
    IN  IF remainder # 0
        THEN [e EXCEPT !.data = @ \o Zeros(alignment - remainder)]
        ELSE e

\* write_u8/i8/bool (size 1), write_u16/i16 (2), write_u32/i32/f32 (4),
\* write_u64/i64/f64 (8): align(size), then the bytes of the value
CdrEncoder_write(e, size, value) ==
    [CdrEncoder_align(e, size) EXCEPT
        !.data = @ \o (IF e.is_little_endian THEN value ELSE Reverse(value))]

CdrDecodeError == Err([kind |-> "CdrDecodeError"])

CdrDecoder_new(data) ==
    IF Len(data) < 4 THEN CdrDecodeError
    ELSE Ok([ data |-> data, position |-> 4, is_little_endian |-> data[2] # 0 ])

CdrDecoder_align(d, alignment) ==
    LET remainder == d.position % alignment
    IN  IF remainder # 0
        THEN [d EXCEPT !.position = @ + (alignment - remainder)]
        ELSE d

\* `available` is data.len() - position on usize: when align has moved the
\* position past the end of the data the subtraction overflows, which panics
\* in a build with overflow checks and wraps in one without (overflow:
\* "panic" | "wrap")
check_remaining(d, needed, overflow) ==
    IF d.position + needed > Len(d.data)
    THEN IF d.position <= Len(d.data)
         THEN Err(BufferTooSmall(needed, Len(d.data) - d.position))
         ELSE IF overflow = "panic" THEN Err([kind |-> "Panic"])
         ELSE Err(BufferTooSmall(needed, Huge))
    ELSE Ok(<<>>)

\* the value at the cursor of the aligned decoder a, if `checked` is Ok
ReadAligned(a, size, checked) ==
    IF ~checked.ok THEN [ok |-> FALSE, err |-> checked.err, d |-> a]
    ELSE [ ok |-> TRUE,
           val |-> IF a.is_little_endian THEN Slice(a.data, a.position, size)
                   ELSE Reverse(Slice(a.data, a.position, size)),
           d |-> [a EXCEPT !.position = @ + size] ]

\* read_u8 .. read_f64: align(size), check_remaining(size), then the value.
\* [ok, val, d]: the decoder is left aligned when the check fails.
CdrDecoder_read(d, size, overflow) ==
    ReadAligned(CdrDecoder_align(d, size), size,
                check_remaining(CdrDecoder_align(d, size), size, overflow))

\* the width of a primitive on the wire
PrimitiveSize(type) ==
    CASE type \in {"bool", "i8", "u8", "char"} -> 1
      [] type \in {"i16", "u16"} -> 2
      [] type \in {"i32", "u32", "f32"} -> 4
      [] type \in {"i64", "u64", "f64"} -> 8

\* what the write_* functions push, in little-endian order: 1 or 0 for a
\* bool, `value as u8` for an i8, a u8 and a char (the low 8 bits), and
\* value.to_le_bytes() (two's complement) for an i16 and a u16.  A 4-byte
\* or 8-byte value is kept as its little-endian bytes.
PrimitiveBytes(type, value) ==
    CASE type = "bool" -> <<IF value THEN 1 ELSE 0>>
      [] type \in {"i8", "u8", "char"} -> <<(value + 256) % 256>>
      [] type \in {"i16", "u16"} -> U16LE((value + 65536) % 65536)
      [] OTHER -> value

\* what the read_* functions make of the bytes: `!= 0` for a bool, `as i8`,
\* `as char`, from_le_bytes
PrimitiveValue(type, bytes) ==
    CASE type = "bool" -> bytes[1] # 0
      [] type = "i8" -> IF bytes[1] >= 128 THEN bytes[1] - 256 ELSE bytes[1]
      [] type \in {"u8", "char"} -> bytes[1]
      [] type = "i16" -> IF FromLE(bytes) >= 32768 THEN FromLE(bytes) - 65536
                         ELSE FromLE(bytes)
      [] type = "u16" -> FromLE(bytes)
      [] OTHER -> bytes

\* write_bool .. write_f64
CdrEncoder_write_primitive(e, type, value) ==
    CdrEncoder_write(e, PrimitiveSize(type), PrimitiveBytes(type, value))

\* write_string: write_u32(len + 1), the bytes, the null terminator
CdrEncoder_write_string(e, value) ==
    [CdrEncoder_write(e, 4, U32LE(Len(value) + 1)) EXCEPT !.data = @ \o value \o <<0>>]

\* the typed value of a read that returned the bytes r
Typed(type, r) ==
    IF r.ok THEN [r EXCEPT !.val = PrimitiveValue(type, r.val)] ELSE r

\* read_bool .. read_f64
CdrDecoder_read_primitive(d, type, overflow) ==
    Typed(type, CdrDecoder_read(d, PrimitiveSize(type), overflow))

\* read_string after read_u32 returned `length` and left the decoder a: the
\* content is the length - 1 bytes at the cursor, and the cursor moves by
\* length before the bytes are checked to be UTF-8
StringAt(a, length, checked) ==
    IF length = 0 THEN [ok |-> TRUE, val |-> <<>>, d |-> a]
    ELSE IF ~checked.ok THEN [ok |-> FALSE, err |-> checked.err, d |-> a]
    ELSE IF ~IsUtf8(Slice(a.data, a.position, length - 1))
    THEN [ok |-> FALSE, err |-> CdrDecodeError.err,
          d |-> [a EXCEPT !.position = @ + length]]
    ELSE [ok |-> TRUE, val |-> Slice(a.data, a.position, length - 1),
          d |-> [a EXCEPT !.position = @ + length]]

StringAfter(len, overflow) ==
    IF ~len.ok THEN len
    ELSE StringAt(len.d, FromLE(len.val), check_remaining(len.d, FromLE(len.val), overflow))

StringAfter_unterminated(len, overflow) ==
    IF ~len.ok THEN len
    ELSE StringAt(len.d, FromLE(len.val) + 1,
                  check_remaining(len.d, FromLE(len.val) + 1, overflow))

CdrDecoder_read_string_unterminated(d, overflow) ==
    StringAfter_unterminated(CdrDecoder_read(d, 4, overflow), overflow)

CdrDecoder_read_string(d, overflow) == StringAfter(CdrDecoder_read(d, 4, overflow), overflow)

(***************************************************************************)
(* ROS 2 message schemas (schema/ros2msg.rs, schema/types.rs).  A text is  *)
(* the sequence of its lines and a line the sequence of its characters,    *)
(* where a run of characters that are not special to the parser is kept    *)
(* as one word: "float64", "x", "0".  The special characters stand alone:  *)
(* " " (a whitespace character), "=", "#", the quotes, "/", "[", "]", ","  *)
(* and "<=".  Divider is the line of 80 "=" that divides the schemas.      *)
(***************************************************************************)
Divider == <<"================================================================================">>

\* str::trim: without the whitespace at both ends
RECURSIVE trim_start(_)
trim_start(chars) ==
    IF chars # <<>> /\ Head(chars) = " " THEN trim_start(Tail(chars)) ELSE chars

trim(chars) == Reverse(trim_start(Reverse(trim_start(chars))))

\* the characters of line before the first "#" that is in no quotes, from
\* index i on, with the quotes open at i
RECURSIVE CommentStart(_, _, _, _)
CommentStart(chars, i, in_single, in_double) ==
    IF i > Len(chars) THEN i
    ELSE IF chars[i] = "'" /\ ~in_double THEN CommentStart(chars, i + 1, ~in_single, in_double)
    ELSE IF chars[i] = "\"" /\ ~in_single THEN CommentStart(chars, i + 1, in_single, ~in_double)
    ELSE IF chars[i] = "#" /\ ~in_single /\ ~in_double THEN i
    ELSE CommentStart(chars, i + 1, in_single, in_double)

remove_inline_comment(chars) ==
    trim(SubSeq(chars, 1, CommentStart(chars, 1, FALSE, FALSE) - 1))

\* str::split(sep): the pieces of chars between the occurrences of sep
RECURSIVE split(_, _)
split(chars, sep) ==
    IF \A i \in DOMAIN chars : chars[i] # sep THEN <<chars>>
    ELSE LET i == CHOOSE k \in DOMAIN chars :
                      chars[k] = sep /\ \A j \in 1..(k - 1) : chars[j] # sep
         IN  <<SubSeq(chars, 1, i - 1)>> \o split(SubSeq(chars, i + 1, Len(chars)), sep)

\* str::split_whitespace: the runs of characters that are no whitespace
split_whitespace(chars) == SelectSeq(split(chars, " "), LAMBDA piece : piece # <<>>)

\* [a, b, c].join(sep)
RECURSIVE join(_, _)
join(pieces, sep) ==
    IF pieces = <<>> THEN <<>>
    ELSE IF Len(pieces) = 1 THEN pieces[1]
    ELSE pieces[1] \o <<sep>> \o join(Tail(pieces), sep)

contains(chars, c) == \E i \in DOMAIN chars : chars[i] = c

\* the words that str::parse reads as a number
NumberOf == [word \in {"0", "1", "2", "3", "5", "7"} |->
                CASE word = "0" -> 0 [] word = "1" -> 1 [] word = "2" -> 2
                  [] word = "3" -> 3 [] word = "5" -> 5 [] word = "7" -> 7]

SchemaParseError == Err([kind |-> "SchemaParseError"])

\* str::parse::<usize / i64 / u64 / f64>
parse_number(chars) ==
    IF Len(chars) = 1 /\ chars[1] \in DOMAIN NumberOf THEN Ok(NumberOf[chars[1]])
    ELSE SchemaParseError

\* PrimitiveType::from_str (schema/types.rs)
PrimitiveType_from_str(word) ==
    IF word \in {"bool", "int8", "uint8", "int16", "uint16", "int32", "uint32",
                 "int64", "uint64", "float32", "float64", "char"}
    THEN Some(word)
    ELSE IF word \in {"byte", "octet"} THEN Some("byte")
    ELSE None

\* a string type with the bound that follows "<=", if there is one
StringType(type_str, is_wide) ==
    IF contains(type_str, "<=")
    THEN LET bound == parse_number(join(Tail(split(type_str, "<=")), "<="))
         IN  IF bound.ok
             THEN Ok([kind |-> "String", is_wide |-> is_wide, max_length |-> Some(bound.val)])
             ELSE SchemaParseError
    ELSE Ok([kind |-> "String", is_wide |-> is_wide, max_length |-> None])

\* the array or sequence type of the elements element_type: length_str is
\* what stands between the brackets
ArrayType(element_type, length_str) ==
    IF ~element_type.ok THEN element_type
    ELSE IF length_str = <<>>
    THEN Ok([kind |-> "Sequence", element_type |-> element_type.val, max_length |-> None])
    ELSE IF Head(length_str) = "<="
    THEN IF parse_number(Tail(length_str)).ok
         THEN Ok([kind |-> "Array", element_type |-> element_type.val,
                  length |-> parse_number(Tail(length_str)).val, is_bounded |-> TRUE])
         ELSE SchemaParseError
    ELSE IF parse_number(length_str).ok
    THEN Ok([kind |-> "Array", element_type |-> element_type.val,
             length |-> parse_number(length_str).val, is_bounded |-> FALSE])
    ELSE SchemaParseError

\* type_str[bracket_pos + 1 .. type_str.len() - 1]: the range is taken
\* whatever the last character is, and a "[" in the last place gives a
\* range that begins behind its end (a panic)
RECURSIVE parse_field_type(_, _)
parse_field_type(type_str, package_name) ==
    IF contains(type_str, "[")
    THEN LET bracket_pos == CHOOSE k \in DOMAIN type_str :
                                type_str[k] = "[" /\ \A j \in 1..(k - 1) : type_str[j] # "["
         IN  IF bracket_pos = Len(type_str) THEN Err([kind |-> "Panic"])
             ELSE ArrayType(parse_field_type(SubSeq(type_str, 1, bracket_pos - 1),
                                             package_name),
                            SubSeq(type_str, bracket_pos + 1, Len(type_str) - 1))
    ELSE IF type_str # <<>> /\ Head(type_str) = "string" THEN StringType(type_str, FALSE)
    ELSE IF type_str # <<>> /\ Head(type_str) = "wstring" THEN StringType(type_str, TRUE)
    ELSE IF Len(type_str) = 1 /\ PrimitiveType_from_str(type_str[1]) # None
    THEN Ok([kind |-> "Primitive", prim |-> Unwrap(PrimitiveType_from_str(type_str[1]))])
    ELSE IF type_str = <<"Header">>
    THEN Ok([kind |-> "Complex", type_name |-> <<"std_msgs", "/", "Header">>])
    ELSE IF ~contains(type_str, "/")
    THEN Ok([kind |-> "Complex", type_name |-> package_name \o <<"/">> \o type_str])
    ELSE Ok([kind |-> "Complex", type_name |-> type_str])

\* str::trim_matches(quote)
RECURSIVE trim_start_matches(_, _)
trim_start_matches(chars, quote) ==
    IF chars # <<>> /\ Head(chars) = quote THEN trim_start_matches(Tail(chars), quote)
    ELSE chars

trim_matches(chars, quote) ==
    Reverse(trim_start_matches(Reverse(trim_start_matches(chars, quote)), quote))

\* the values of the elements of an array literal, or the first error
RECURSIVE Elements(_, _)
Elements(values, acc) ==
    IF values = <<>> THEN Ok([kind |-> "Array", val |-> acc])
    ELSE IF ~Head(values).ok THEN Head(values)
    ELSE Elements(Tail(values), Append(acc, Head(values).val))

RECURSIVE parse_value(_, _)
parse_value(field_type, value_str) ==
    LET str == trim(value_str)
        number == parse_number(str)
    IN  IF field_type.kind = "Primitive"
        THEN IF field_type.prim = "bool"
             THEN Ok([kind |-> "Bool", val |-> str \in {<<"true">>, <<"True">>, <<"1">>}])
             ELSE IF field_type.prim \in {"int8", "int16", "int32", "int64"}
             THEN IF number.ok THEN Ok([kind |-> "Int", val |-> number.val]) ELSE number
             ELSE IF field_type.prim \in {"uint8", "uint16", "uint32", "uint64", "byte"}
             THEN IF number.ok THEN Ok([kind |-> "Uint", val |-> number.val]) ELSE number
             ELSE IF field_type.prim \in {"float32", "float64"}
             THEN IF number.ok THEN Ok([kind |-> "Float", val |-> number.val]) ELSE number
             ELSE Ok([kind |-> "Uint", val |-> IF str = <<>> THEN "\\0" ELSE str[1]])
        ELSE IF field_type.kind = "String"
        THEN Ok([kind |-> "String", val |-> trim_matches(trim_matches(str, "\""), "'")])
        ELSE IF field_type.kind \in {"Array", "Sequence"}
        THEN IF str = <<>> \/ Head(str) # "[" \/ str[Len(str)] # "]"
             THEN SchemaParseError
             ELSE Elements([i \in DOMAIN split(SubSeq(str, 2, Len(str) - 1), ",") |->
                              parse_value(field_type.element_type,
                                          split(SubSeq(str, 2, Len(str) - 1), ",")[i])],
                           <<>>)
        ELSE SchemaParseError

\* Schema::new
Schema_new(name) == [name |-> name, fields |-> <<>>, constants |-> <<>>]

\* the constant of a line whose tokens are parts: NAME=VALUE in one token,
\* or NAME followed by a token that begins with "="
ConstantOf(parts, field_type) ==
    LET const_name == IF contains(parts[2], "=") THEN split(parts[2], "=")[1] ELSE parts[2]
        const_value ==
            IF contains(parts[2], "=")
            THEN join(Tail(split(parts[2], "=")), "=")
            ELSE IF Len(parts) > 3 THEN join(SubSeq(parts, 4, Len(parts)), " ")
            ELSE IF Len(parts) > 2 /\ Len(parts[3]) > 1 THEN Tail(parts[3])
            ELSE <<>>
        value == parse_value(field_type.val, const_value)
    IN  IF ~field_type.ok THEN field_type
        ELSE IF ~value.ok THEN value
        ELSE Ok([name |-> const_name, field_type |-> field_type.val, value |-> value.val])

\* the field of a line whose tokens are parts: TYPE NAME [DEFAULT]
FieldOf(parts, field_type) ==
    LET default_value ==
            IF Len(parts) > 2
            THEN parse_value(field_type.val, join(SubSeq(parts, 3, Len(parts)), " "))
            ELSE Ok(None)
    IN  IF ~field_type.ok THEN field_type
        ELSE IF ~default_value.ok THEN default_value
        ELSE Ok([ name |-> parts[2], field_type |-> field_type.val,
                  default_value |-> IF Len(parts) > 2 THEN Some(default_value.val)
                                    ELSE None ])

\* the tokens of a line say that it declares a constant
IsConstant(parts) ==
    contains(parts[2], "=") \/ (Len(parts) > 2 /\ Head(parts[3]) = "=")

\* the loop of parse_message_fields over the lines of text, from line i on
RECURSIVE FieldsLoop(_, _, _, _)
FieldsLoop(schema, text, i, package_name) ==
    IF i > Len(text) THEN Ok(schema)
    ELSE LET parts == split_whitespace(trim(text[i]))
         IN  IF Len(parts) < 2 THEN FieldsLoop(schema, text, i + 1, package_name)
             ELSE IF IsConstant(parts)
             THEN LET c == ConstantOf(parts, parse_field_type(parts[1], package_name))
                  IN  IF ~c.ok THEN c
                      ELSE FieldsLoop([schema EXCEPT !.constants = Append(@, c.val)],
                                      text, i + 1, package_name)
             ELSE LET f == FieldOf(parts, parse_field_type(parts[1], package_name))
                  IN  IF ~f.ok THEN f
                      ELSE FieldsLoop([schema EXCEPT !.fields = Append(@, f.val)],
                                      text, i + 1, package_name)

parse_message_fields_backwards(name, text, package_name) ==
    FieldsLoop(Schema_new(name), Reverse(text), 1, package_name)

parse_message_fields(name, text, package_name) ==
    FieldsLoop(Schema_new(name), text, 1, package_name)

\* cleaned.split(Divider): the runs of lines between the divider lines
RECURSIVE SplitParts(_)
SplitParts(text) ==
    IF \A i \in DOMAIN text : text[i] # Divider THEN <<text>>
    ELSE LET i == CHOOSE k \in DOMAIN text :
                      text[k] = Divider /\ \A j \in 1..(k - 1) : text[j] # Divider
         IN  <<SubSeq(text, 1, i - 1)>> \o SplitParts(SubSeq(text, i + 1, Len(text)))

\* Ros2MsgParser::new: builtin_interfaces/Time and builtin_interfaces/Duration
BuiltinSchema(name) ==
    [ name |-> name,
      fields |-> << [name |-> <<"sec">>, field_type |-> [kind |-> "Primitive", prim |-> "int32"],
                     default_value |-> None],
                    [name |-> <<"nanosec">>,
                     field_type |-> [kind |-> "Primitive", prim |-> "uint32"],
                     default_value |-> None] >>,
      constants |-> <<>> ]

BuiltinNames ==
    {<<"builtin_interfaces", "/", "Time">>, <<"builtin_interfaces", "/", "Duration">>}

\* text.contains(name), on the text as given (comments included)
TextContains(text, name) ==
    \E i \in DOMAIN text : \E k \in 1..(Len(text[i]) - Len(name) + 1) :
        SubSeq(text[i], k, k + Len(name) - 1) = name

\* sub_schemas with the builtin schemas that the text names and no part
\* has defined
WithBuiltins(sub_schemas, text) ==
    LET added == {n \in BuiltinNames : n \notin DOMAIN sub_schemas /\ TextContains(text, n)}
    IN  [n \in DOMAIN sub_schemas \cup added |->
            IF n \in DOMAIN sub_schemas THEN sub_schemas[n] ELSE BuiltinSchema(n)]

\* the loop of parse over the parts behind the first: a part whose first line
\* is "MSG: <name>" is parsed and stored under that name, any other part is
\* passed over
RECURSIVE SubSchemas(_, _, _)
SubSchemas(parts, i, sub_schemas) ==
    IF i > Len(parts) THEN Ok(sub_schemas)
    ELSE IF parts[i] = <<>> \/ Len(parts[i][1]) < 2
            \/ SubSeq(parts[i][1], 1, 2) # <<"MSG:", " ">>
    THEN SubSchemas(parts, i + 1, sub_schemas)
    ELSE LET sub_name == SubSeq(parts[i][1], 3, Len(parts[i][1]))
             sub_schema == parse_message_fields(sub_name, Tail(parts[i]),
                                                split(sub_name, "/")[1])
         IN  IF ~sub_schema.ok THEN sub_schema
             ELSE SubSchemas(parts, i + 1,
                      [n \in DOMAIN sub_schemas \cup {sub_name} |->
                          IF n = sub_name THEN sub_schema.val ELSE sub_schemas[n]])

\* the result of parse once the main schema is parsed
Parsed(main_schema, subs, text) ==
    IF ~main_schema.ok THEN main_schema
    ELSE IF ~subs.ok THEN subs
    ELSE Ok([main |-> main_schema.val, sub_schemas |-> WithBuiltins(subs.val, text)])

\* Ros2MsgParser::parse(name, data): the lines without their comments, the
\* empty ones left out, are split at the dividers
Ros2MsgParser_parse(name, text) ==
    LET cleaned == SelectSeq([i \in DOMAIN text |-> remove_inline_comment(text[i])],
                             LAMBDA chars : chars # <<>>)
    IN  Parsed(parse_message_fields(name, SplitParts(cleaned)[1], split(name, "/")[1]),
               SubSchemas(SplitParts(cleaned), 2, <<>>), text)

(***************************************************************************)
(* RustCdrDecoder (src/rust/src/lib.rs): the decoder of the Python         *)
(* binding.  It keeps the bytes behind the 4-byte header, and its position *)
(* counts from there.                                                      *)
(***************************************************************************)
RustCdrDecoder_new(data) ==
    IF Len(data) < 4 THEN Err([kind |-> "ValueError"])
    ELSE Ok([ data |-> SubSeq(data, 5, Len(data)), position |-> 0,
              is_little_endian |-> data[2] # 0 ])

RustCdrDecoder_align(d, size) ==
    IF d.position % size > 0
    THEN [d EXCEPT !.position = @ + (size - (d.position % size))]
    ELSE d

\* read(size): the bytes at the position, in the order of the buffer
RustCdrDecoder_read(d, size) ==
    IF d.position + size > Len(d.data)
    THEN [ok |-> FALSE, err |-> [kind |-> "ValueError"], d |-> d]
    ELSE [ok |-> TRUE, val |-> Slice(d.data, d.position, size),
          d |-> [d EXCEPT !.position = @ + size]]

\* String::from_utf8_lossy of one byte: a byte above 127 becomes U+FFFD
LossyChar(byte) == IF byte < 128 THEN byte ELSE 65533

\* bool() .. float64(): align(size), read(size), then LittleEndian::read_* or
\* BigEndian::read_*; a value of 4 or 8 bytes is kept as its little-endian
\* bytes
RustCdrDecoder_primitive(d, type) ==
    LET r == RustCdrDecoder_read(RustCdrDecoder_align(d, PrimitiveSize(type)),
                                 PrimitiveSize(type))
    IN  IF ~r.ok THEN r
        ELSE IF type = "char" THEN [r EXCEPT !.val = LossyChar(r.val[1])]
        ELSE [r EXCEPT !.val = PrimitiveValue(type,
                                   IF d.is_little_endian THEN r.val ELSE Reverse(r.val))]

(***************************************************************************)
(* The inputs of the runs.                                                 *)
(***************************************************************************)
Profile == <<114>>

\* (chunk_size, chunk_compression) of McapWriter::new
Configs ==
    { <<None, None>>, <<Some(ChunkSize), None>>,
      <<Some(ChunkSize), Some(NameLz4)>>, <<Some(ChunkSize), Some(NameZstd)>> }

ChannelIds == {1, 2}

\* the schema id 0 is the one parse_schema ignores
Schemas == { [id |-> i, name |-> <<80>>, encoding |-> <<>>, data |-> <<>>] : i \in {0, 1} }

Channels ==
    { [id |-> c, schema_id |-> 1, topic |-> <<96 + c>>, message_encoding |-> <<>>,
       metadata |-> EmptyMap] : c \in ChannelIds }

Times == 1..MaxTime

\* the message of the n-th write_message call: its sequence number tells the
\* messages of one file apart
MessageOf(c, t, n) ==
    [ channel_id |-> c, sequence |-> n, log_time |-> t, publish_time |-> t + 1,
      data |-> IF c = 1 THEN <<>> ELSE <<170>> ]

Attachments ==
    { [log_time |-> 1, create_time |-> 1, name |-> <<n>>, media_type |-> <<>>,
       data |-> <<7>>, crc |-> 0] : n \in {97, 98} }

Metadatas == { [name |-> <<n>>, metadata |-> EmptyMap] : n \in {109, 110} }

\* the name filters of McapReader::attachments and McapReader::metadata
NameFilters(records) == {None} \cup {Some(r.name) : r \in records}

\* the topics message_count is asked for: those of the channels, and one more
Topics == {c.topic : c \in Channels} \cup {<<122>>}

\* the arguments of McapReader::messages
Queries(channel_sets, times) ==
    [ op : {"messages"}, channel_ids : channel_sets, start_time : times, end_time : times,
      in_log_time_order : BOOLEAN, in_reverse : BOOLEAN ]

Unfiltered == Queries({None}, {None})

Filtered ==
    Queries({None} \cup {Some({c}) : c \in ChannelIds},
            {None} \cup {Some(t) : t \in Times})

NoTamper == [kind |-> "none"]

(***************************************************************************)
(* Init: a writer just constructed on an empty sink.                       *)
(***************************************************************************)
Init ==
    /\ pc = "writing"
    /\ \E cfg \in Configs : w = McapWriter_new(Profile, cfg[1], cfg[2])
    /\ calls = 0
    /\ written = <<>>
    /\ file = <<>>
    /\ tamper = NoTamper
    /\ rd = None
    /\ query = None
    /\ res = None
    /\ enc = None
    /\ dec = None
    /\ cdr = <<>>
    /\ log = <<>>
    /\ reads = 0

\* the call write_<op>(arg) is added to the history
Logged(op, arg) == log' = Append(log, [op |-> op, arg |-> arg])

\* the writer after a write_* call that returned r
Returned(r) ==
    /\ w' = r.w
    /\ pc' = IF r.ok THEN pc ELSE "failed"
    /\ calls' = calls + 1

WriteSchema(limit) ==
    /\ pc = "writing" /\ calls < limit
    /\ \E schema \in Schemas :
          Returned(write_schema(w, schema)) /\ Logged("schema", schema)
    /\ UNCHANGED <<written, file, tamper, rd, query, res, enc, dec, cdr, reads>>

WriteChannel(limit) ==
    /\ pc = "writing" /\ calls < limit
    /\ \E channel \in Channels :
          Returned(write_channel(w, channel)) /\ Logged("channel", channel)
    /\ UNCHANGED <<written, file, tamper, rd, query, res, enc, dec, cdr, reads>>

WriteMessage(limit) ==
    /\ pc = "writing" /\ calls < limit
    /\ \E c \in ChannelIds, t \in Times :
          /\ Returned(write_message(w, MessageOf(c, t, Len(written))))
          /\ written' = Append(written, MessageOf(c, t, Len(written)))
          /\ Logged("message", MessageOf(c, t, Len(written)))
    /\ UNCHANGED <<file, tamper, rd, query, res, enc, dec, cdr, reads>>

WriteAttachment(limit) ==
    /\ pc = "writing" /\ calls < limit
    /\ \E attachment \in Attachments :
          Returned(write_attachment(w, attachment)) /\ Logged("attachment", attachment)
    /\ UNCHANGED <<written, file, tamper, rd, query, res, enc, dec, cdr, reads>>

WriteMetadata(limit) ==
    /\ pc = "writing" /\ calls < limit
    /\ \E metadata \in Metadatas :
          Returned(write_metadata(w, metadata)) /\ Logged("metadata", metadata)
    /\ UNCHANGED <<written, file, tamper, rd, query, res, enc, dec, cdr, reads>>

\* the writer and the file after close returned r
Closed(r) ==
    /\ w' = r.w
    /\ pc' = IF r.ok THEN "closed" ELSE "failed"
    /\ file' = IF r.ok THEN r.w.writer ELSE file

\* close(self): the HashMaps are iterated in an order of their own
Close ==
    /\ pc = "writing"
    /\ \E schema_order \in Perms(DOMAIN w.schemas),
          channel_order \in Perms(DOMAIN w.channels),
          count_order \in Perms(DOMAIN w.channel_message_counts) :
          Closed(close(w, schema_order, channel_order, count_order))
    /\ UNCHANGED <<calls, written, tamper, rd, query, res, enc, dec, cdr, log, reads>>

\* the reader after McapReader::new returned r
Opened(r) ==
    /\ rd' = r
    /\ pc' = IF r.ok THEN "open" ELSE "rejected"

\* McapReader::from_bytes(file, enable_crc_check)
Open ==
    /\ pc = "closed"
    /\ \E enable_crc_check \in BOOLEAN :
          Opened(McapReader_new(file, enable_crc_check))
    /\ UNCHANGED <<w, calls, written, file, tamper, query, res, enc, dec, cdr, log, reads>>

\* the reader after messages(q) returned r
Answered(q, r) ==
    /\ query' = q
    /\ res' = r
    /\ rd' = [rd EXCEPT !.val.position = r.pos]
    /\ reads' = reads + 1

\* reader.messages(...), one call on the open reader; nds: what the codec
\* libraries may do with a block that no compressor wrote
Messages(queries, nds) ==
    /\ pc = "open"
    /\ \E q \in queries, nd \in nds :
          Answered(q, messages(rd.val, q.channel_ids, q.start_time, q.end_time,
                               q.in_log_time_order, q.in_reverse, nd))
    /\ pc' = "read"
    /\ UNCHANGED <<w, calls, written, file, tamper, enc, dec, cdr, log>>

\* reader.attachments(name_filter), one call on the open reader
ReadAttachments ==
    /\ pc = "open"
    /\ \E name_filter \in NameFilters(Attachments) :
          Answered([op |-> "attachments", name_filter |-> name_filter],
                   McapReader_attachments(rd.val, name_filter))
    /\ pc' = "read"
    /\ UNCHANGED <<w, calls, written, file, tamper, enc, dec, cdr, log>>

\* reader.metadata(name_filter), one call on the open reader
ReadMetadata ==
    /\ pc = "open"
    /\ \E name_filter \in NameFilters(Metadatas) :
          Answered([op |-> "metadata", name_filter |-> name_filter],
                   McapReader_metadata(rd.val, name_filter))
    /\ pc' = "read"
    /\ UNCHANGED <<w, calls, written, file, tamper, enc, dec, cdr, log>>

\* reader.statistics(), start_time(), end_time() and message_count(topic) for
\* every topic, on the open reader
Inspect ==
    /\ pc = "open"
    /\ Answered([op |-> "inspect"],
                At([ statistics |-> McapReader_statistics(rd.val),
                     start_time |-> McapReader_start_time(rd.val),
                     end_time |-> McapReader_end_time(rd.val),
                     message_count |-> [t \in Topics |-> McapReader_message_count(rd.val, t)] ],
                   rd.val.position))
    /\ pc' = "read"
    /\ UNCHANGED <<w, calls, written, file, tamper, enc, dec, cdr, log>>

\* FastMcapReader::open on the file
FastOpen ==
    /\ pc = "closed"
    /\ \E overflow \in {"panic", "wrap"} : rd' = FastMcapReader_open(file, overflow)
    /\ pc' = IF rd'.ok THEN "mapped" ELSE "unmapped"
    /\ UNCHANGED <<w, calls, written, file, tamper, query, res, enc, dec, cdr, log, reads>>

\* for item in reader.iter_messages(), on the mapped file
IterMessages ==
    /\ pc = "mapped"
    /\ query' = [op |-> "iter_messages"]
    /\ res' = Iterated(rd.val.mmap, iter_messages(rd.val))
    /\ reads' = reads + 1
    /\ pc' = "iterated"
    /\ UNCHANGED <<w, calls, written, file, tamper, rd, enc, dec, cdr, log>>

Next ==
    \/ WriteSchema(MaxCalls)
    \/ WriteChannel(MaxCalls)
    \/ WriteMessage(MaxCalls)
    \/ WriteAttachment(MaxCalls)
    \/ WriteMetadata(MaxCalls)
    \/ Close
    \/ Open
    \/ Messages(Unfiltered, {"error"})

Spec == Init /\ [][Next]_vars

NextFilter ==
    \/ WriteSchema(MaxShortCalls)
    \/ WriteChannel(MaxShortCalls)
    \/ WriteMessage(MaxShortCalls)
    \/ WriteAttachment(MaxShortCalls)
    \/ WriteMetadata(MaxShortCalls)
    \/ Close
    \/ Open
    \/ Messages(Filtered, {"error"})

SpecFilter == Init /\ [][NextFilter]_vars

(***************************************************************************)
(* Changes made to a closed file before it is opened: the corrupted files  *)
(* the reader must reject.                                                 *)
(***************************************************************************)
\* replacement values for a magic byte
TamperBytes == {0, 49}

\* the bits of a byte that are flipped: the lowest, a middle and the highest
FlipBits == {0, 4, 7}

\* b with bit i flipped
FlipBit(b, i) == IF Bit(b, i) = 1 THEN b - 2 ^ i ELSE b + 2 ^ i

\* the offsets of the records of the file, from the header to the footer
RECURSIVE RecordOffsets(_, _)
RecordOffsets(data, pos) ==
    IF pos + 9 > Len(data) - 8 THEN {}
    ELSE {pos} \cup RecordOffsets(data, pos + 9 + FromLE(Slice(data, pos + 1, 8)))

\* one of the 8 magic bytes, at the start or at the end of the file, is changed
TamperMagic ==
    /\ pc = "closed" /\ tamper = NoTamper
    /\ \E at \in (0..7) \cup ((Len(file) - 8)..(Len(file) - 1)), b \in TamperBytes :
          /\ b # file[at + 1]
          /\ file' = Poke(file, at, b)
          /\ tamper' = [ kind |-> "magic", at |-> at,
                         index |-> IF at < 8 THEN at ELSE at - (Len(file) - 8) ]
    /\ UNCHANGED <<pc, w, calls, written, rd, query, res, enc, dec, cdr, log, reads>>

\* one bit is flipped in the records of the i-th chunk, which parses as `chunk`
Flipped(i, chunk) ==
    \E offset \in 0..(Min(MaxFlipOffset, Len(chunk.val.records)) - 1), bit \in FlipBits :
       /\ file' = Poke(file, chunk.pos - Len(chunk.val.records) + offset,
                       FlipBit(chunk.val.records[offset + 1], bit))
       /\ tamper' = [ kind |-> "flip", chunk |-> i, offset |-> offset, bit |-> bit,
                      compression |-> chunk.val.compression,
                      uncompressed_crc |-> chunk.val.uncompressed_crc,
                      records |-> Poke(chunk.val.records, offset,
                                       FlipBit(chunk.val.records[offset + 1], bit)) ]

\* one bit of the stored `records` bytes of one chunk is flipped
TamperChunk ==
    /\ pc = "closed" /\ tamper = NoTamper
    /\ \E i \in 1..Len(w.chunk_indices) :
          Flipped(i, parse_chunk(file, w.chunk_indices[i].chunk_start_offset))
    /\ UNCHANGED <<pc, w, calls, written, rd, query, res, enc, dec, cdr, log, reads>>

\* the length of one record is changed to end one byte after the end of the file
TamperLength ==
    /\ pc = "closed" /\ tamper = NoTamper
    /\ \E at \in RecordOffsets(file, 8) :
          /\ file' = SubSeq(file, 1, at + 1) \o U64LE(Len(file) - (at + 9) + 1)
                      \o SubSeq(file, at + 10, Len(file))
          /\ tamper' = [ kind |-> "overrun", at |-> at, opcode |-> file[at + 1],
                         length |-> Len(file) - (at + 9) + 1 ]
    /\ UNCHANGED <<pc, w, calls, written, rd, query, res, enc, dec, cdr, log, reads>>

\* the plain call messages(None, None, None, false, false)
Plain == { q \in Unfiltered : ~q.in_log_time_order /\ ~q.in_reverse }

NextMagic ==
    \/ WriteSchema(MaxShortCalls)
    \/ WriteChannel(MaxShortCalls)
    \/ WriteMessage(MaxShortCalls)
    \/ WriteAttachment(MaxShortCalls)
    \/ WriteMetadata(MaxShortCalls)
    \/ Close
    \/ TamperMagic
    \/ Open

SpecMagic == Init /\ [][NextMagic]_vars

NextFlip ==
    \/ WriteSchema(MaxShortCalls)
    \/ WriteChannel(MaxShortCalls)
    \/ WriteMessage(MaxShortCalls)
    \/ WriteAttachment(MaxShortCalls)
    \/ WriteMetadata(MaxShortCalls)
    \/ Close
    \/ TamperChunk
    \/ Open
    \/ Messages(Plain, {"error", "bytes"})

SpecFlip == Init /\ [][NextFlip]_vars

NextOverrun ==
    \/ WriteSchema(MaxShortCalls)
    \/ WriteChannel(MaxShortCalls)
    \/ WriteMessage(MaxShortCalls)
    \/ WriteAttachment(MaxShortCalls)
    \/ WriteMetadata(MaxShortCalls)
    \/ Close
    \/ TamperLength
    \/ Open
    \/ Messages(Plain, {"error"})

SpecOverrun == Init /\ [][NextOverrun]_vars

\* a writer just constructed with any chunk_size: an Option<usize>, so 0 too
InitChunk ==
    /\ pc = "writing"
    /\ \E chunk_size \in {None, Some(0), Some(1), Some(ChunkSize)},
          compression \in {None, Some(NameLz4)} :
          w = McapWriter_new(Profile, chunk_size, compression)
    /\ calls = 0
    /\ written = <<>>
    /\ file = <<>>
    /\ tamper = NoTamper
    /\ rd = None
    /\ query = None
    /\ res = None
    /\ enc = None
    /\ dec = None
    /\ cdr = <<>>
    /\ log = <<>>
    /\ reads = 0

NextChunk ==
    \/ WriteSchema(MaxCalls)
    \/ WriteChannel(MaxCalls)
    \/ WriteMessage(MaxCalls)
    \/ WriteAttachment(MaxCalls)
    \/ WriteMetadata(MaxCalls)
    \/ Close

SpecChunk == InitChunk /\ [][NextChunk]_vars

\* A writer opened with a chunk size and a compression name that
\* compress_chunk does not know ("gzip", "LZ4"): McapWriter::new takes any name
InitRejected ==
    /\ pc = "writing"
    /\ \E chunk_size \in {Some(1), Some(ChunkSize)},
          compression \in {Some(<<103, 122, 105, 112>>), Some(<<76, 90, 52>>)} :
          w = McapWriter_new(Profile, chunk_size, compression)
    /\ calls = 0
    /\ written = <<>>
    /\ file = <<>>
    /\ tamper = NoTamper
    /\ rd = None
    /\ query = None
    /\ res = None
    /\ enc = None
    /\ dec = None
    /\ cdr = <<>>
    /\ log = <<>>
    /\ reads = 0

SpecRejected == InitRejected /\ [][NextChunk]_vars

\* one byte of the length field of the footer is changed: the footer then
\* declares a body length other than 20
TamperFooter ==
    /\ pc = "closed" /\ tamper = NoTamper
    /\ \E at \in (Len(file) - 36)..(Len(file) - 29), b \in TamperBytes \cup {20, 21} :
          /\ b # file[at + 1]
          /\ file' = Poke(file, at, b)
          /\ tamper' = [kind |-> "footer", at |-> at]
    /\ UNCHANGED <<pc, w, calls, written, rd, query, res, enc, dec, cdr, log, reads>>

NextFast ==
    \/ WriteSchema(MaxShortCalls)
    \/ WriteChannel(MaxShortCalls)
    \/ WriteMessage(MaxShortCalls)
    \/ WriteAttachment(MaxShortCalls)
    \/ WriteMetadata(MaxShortCalls)
    \/ Close
    \/ TamperFooter
    \/ Open
    \/ FastOpen
    \/ Messages(Plain, {"error"})
    \/ IterMessages

SpecFast == Init /\ [][NextFast]_vars

\* one of the two low bytes of a u64 that the file declares is changed: the
\* summary_start of the footer, the length of the header, or the length of
\* the record behind the header
TamperStructure ==
    /\ pc = "closed" /\ tamper = NoTamper
    /\ \E field \in {Len(file) - 28, 9, 9 + 9 + FromLE(Slice(file, 9, 8))},
          byte \in {0, 1}, b \in TamperBytes \cup {1, 255} :
          /\ b # file[field + byte + 1]
          /\ file' = Poke(file, field + byte, b)
          /\ tamper' = [kind |-> "structure", at |-> field + byte]
    /\ UNCHANGED <<pc, w, calls, written, rd, query, res, enc, dec, cdr, log, reads>>

\* reader.for_each_message(f), on the mapped file
ForEachMessage ==
    /\ pc = "mapped"
    /\ query' = [op |-> "for_each_message"]
    /\ \E overflow \in {"panic", "wrap"}, nd \in {"error", "bytes"} :
          res' = for_each_message(rd.val, overflow, nd)
    /\ reads' = reads + 1
    /\ pc' = "visited"
    /\ UNCHANGED <<w, calls, written, file, tamper, rd, enc, dec, cdr, log>>

NextBounds ==
    \/ WriteSchema(MaxShortCalls)
    \/ WriteChannel(MaxShortCalls)
    \/ WriteMessage(MaxShortCalls)
    \/ WriteAttachment(MaxShortCalls)
    \/ WriteMetadata(MaxShortCalls)
    \/ Close
    \/ TamperStructure
    \/ FastOpen
    \/ ForEachMessage
    \/ IterMessages

SpecBounds == Init /\ [][NextBounds]_vars

\* the file without its summary section: the data section up to and with
\* DataEnd, then a footer whose summary_start is 0, then the end magic
StripSummary ==
    /\ pc = "closed" /\ tamper = NoTamper
    /\ file' = Slice(file, 0, parse_footer(file, Len(file) - 37).val.summary_start)
               \o write_footer_record([ summary_start |-> 0, summary_offset_start |-> 0,
                                        summary_crc |-> 0 ])
               \o MAGIC_BYTES
    /\ tamper' = [kind |-> "nosummary"]
    /\ UNCHANGED <<pc, w, calls, written, rd, query, res, enc, dec, cdr, log, reads>>

NextSummary ==
    \/ WriteSchema(MaxCalls)
    \/ WriteChannel(MaxCalls)
    \/ WriteMessage(MaxCalls)
    \/ WriteAttachment(MaxCalls)
    \/ WriteMetadata(MaxCalls)
    \/ Close
    \/ StripSummary
    \/ Open
    \/ Messages(Plain, {"error"})
    \/ Inspect

SpecSummary == Init /\ [][NextSummary]_vars

\* the call made before on the same reader, and what it returned
Before ==
    IF pc = "read"
    THEN << [ call |-> [f \in DOMAIN query \ {"before"} |-> query[f]], res |-> res ] >>
    ELSE <<>>

\* one more call of messages, attachments or metadata on a reader that may
\* have answered calls before
Call ==
    /\ pc \in {"open", "read"} /\ reads < MaxReads
    /\ \/ \E q \in Plain, nd \in {"error"} :
             Answered([ op |-> "messages", channel_ids |-> q.channel_ids,
                        start_time |-> q.start_time, end_time |-> q.end_time,
                        in_log_time_order |-> q.in_log_time_order,
                        in_reverse |-> q.in_reverse, nd |-> nd, before |-> Before ],
                      messages(rd.val, q.channel_ids, q.start_time, q.end_time,
                               q.in_log_time_order, q.in_reverse, nd))
       \/ \E name_filter \in NameFilters(Attachments) :
             Answered([ op |-> "attachments", name_filter |-> name_filter,
                        before |-> Before ],
                      McapReader_attachments(rd.val, name_filter))
       \/ \E name_filter \in NameFilters(Metadatas) :
             Answered([ op |-> "metadata", name_filter |-> name_filter,
                        before |-> Before ],
                      McapReader_metadata(rd.val, name_filter))
    /\ pc' = "read"
    /\ UNCHANGED <<w, calls, written, file, tamper, enc, dec, cdr, log>>

\* the lowest bit of the first byte of the records of `chunk` is flipped
Corrupted(chunk) ==
    /\ file' = Poke(file, chunk.pos - Len(chunk.val.records),
                    FlipBit(chunk.val.records[1], 0))
    /\ tamper' = [kind |-> "corrupt"]

\* the first chunk of the file is damaged, so that calls of messages may fail
CorruptChunk ==
    /\ pc = "closed" /\ tamper = NoTamper /\ w.chunk_indices # <<>>
    /\ Corrupted(parse_chunk(file, w.chunk_indices[1].chunk_start_offset))
    /\ UNCHANGED <<pc, w, calls, written, rd, query, res, enc, dec, cdr, log, reads>>

NextHistory ==
    \/ WriteSchema(MaxShortCalls)
    \/ WriteChannel(MaxShortCalls)
    \/ WriteMessage(MaxShortCalls)
    \/ WriteAttachment(MaxShortCalls)
    \/ WriteMetadata(MaxShortCalls)
    \/ Close
    \/ CorruptChunk
    \/ Open
    \/ Call

SpecHistory == Init /\ [][NextHistory]_vars

NextIndex ==
    \/ WriteSchema(MaxCalls)
    \/ WriteChannel(MaxCalls)
    \/ WriteMessage(MaxCalls)
    \/ WriteAttachment(MaxCalls)
    \/ WriteMetadata(MaxCalls)
    \/ Close
    \/ Open
    \/ Messages(Plain, {"error"})
    \/ ReadAttachments
    \/ ReadMetadata
    \/ Inspect

SpecIndex == Init /\ [][NextIndex]_vars

(***************************************************************************)
(* The CDR codec: an encoder is given primitives to write, then a decoder  *)
(* is put on a buffer and asked for primitives.                            *)
(***************************************************************************)
CdrSizes == {1, 2, 4, 8}

\* the little-endian bytes of the float64 values 1.0, 2.0 and 3.0
F64LE(n) ==
    CASE n = 1 -> <<0, 0, 0, 0, 0, 0, 240, 63>>
      [] n = 2 -> <<0, 0, 0, 0, 0, 0, 0, 64>>
      [] n = 3 -> <<0, 0, 0, 0, 0, 0, 8, 64>>
      [] OTHER -> <<n % 256, 0, 0, 0, 0, 0, 16, 64>>

\* the n-th value written, as a primitive of `size` bytes
CdrValue(size, n) == SubSeq(F64LE(n), 9 - size, 8)

\* a little-endian message of three float64 fields x = 1.0, y = 2.0, z = 3.0
PointPayload == <<0, 1, 0, 0>> \o F64LE(1) \o F64LE(2) \o F64LE(3)

Writes(history) == SelectSeq(history, LAMBDA e : e.op = "write")

Reads(history) == SelectSeq(history, LAMBDA e : e.op = "read")

(***************************************************************************)
(* The chunk codec on its own (mcap/chunk.rs): compress_chunk and          *)
(* decompress_chunk applied to a compression name and a byte string, the   *)
(* way the tests of chunk.rs apply them.                                   *)
(***************************************************************************)
\* "gzip", "LZ4" and "zst": names that are not compression names
CompressionNames ==
    { <<>>, NameNone, NameLz4, NameZstd,
      <<103, 122, 105, 112>>, <<76, 90, 52>>, <<122, 115, 116>> }

\* b"hello world hello world hello world" (chunk.rs, the round-trip tests)
HelloWorld ==
    <<104, 101, 108, 108, 111, 32, 119, 111, 114, 108, 100, 32,
      104, 101, 108, 108, 111, 32, 119, 111, 114, 108, 100, 32,
      104, 101, 108, 108, 111, 32, 119, 111, 114, 108, 100>>

CodecData ==
    {HelloWorld} \cup UNION {[1..n -> {0, 104, 255}] : n \in 0..MaxData}

InitCodec ==
    /\ pc = "codec"
    /\ \E compression \in CompressionNames, data \in CodecData :
          query = [op |-> "codec", compression |-> compression, data |-> data]
    /\ res = None
    /\ file = <<>>
    /\ w = None
    /\ calls = 0
    /\ written = <<>>
    /\ tamper = NoTamper
    /\ rd = None
    /\ enc = None
    /\ dec = None
    /\ cdr = <<>>
    /\ log = <<>>
    /\ reads = 0

\* compress_chunk(compression, data); the bytes returned are kept in `file`
Compress ==
    /\ pc = "codec"
    /\ res' = compress_chunk(query.compression, query.data)
    /\ pc' = IF res'.ok THEN "compressed" ELSE "failed"
    /\ file' = IF res'.ok THEN res'.val ELSE file
    /\ UNCHANGED <<w, calls, written, tamper, rd, query, enc, dec, cdr, log, reads>>

\* decompress_chunk(compression, compressed, data.len()) on the bytes that
\* compress_chunk returned
Decompress ==
    /\ pc = "compressed"
    /\ \E nd \in {"error", "bytes"} :
          res' = decompress_chunk(query.compression, file, Len(query.data), nd)
    /\ pc' = "decompressed"
    /\ UNCHANGED <<w, calls, written, file, tamper, rd, query, enc, dec, cdr, log, reads>>

\* decompress_chunk(compression, data, data.len()) on bytes of any origin
DecompressAny ==
    /\ pc = "codec"
    /\ \E nd \in {"error", "bytes"} :
          res' = decompress_chunk(query.compression, query.data, Len(query.data), nd)
    /\ pc' = "decoded"
    /\ UNCHANGED <<w, calls, written, file, tamper, rd, query, enc, dec, cdr, log, reads>>

NextCodec ==
    \/ Compress
    \/ Decompress
    \/ DecompressAny

SpecCodec == InitCodec /\ [][NextCodec]_vars


(***************************************************************************)
(* The record parsers on their own (mcap/parser.rs): one parse_* function  *)
(* applied to a reader that stands at a record of which one byte may have  *)
(* been changed, with bytes before it and bytes behind it.                 *)
(***************************************************************************)
RecordKinds ==
    { "header", "footer", "schema", "channel", "message", "chunk", "chunk_index",
      "attachment", "attachment_index", "metadata", "metadata_index", "statistics" }

\* the parse_* function of a kind of record
parse_record(kind, data, pos) ==
    CASE kind = "header" -> parse_header(data, pos)
      [] kind = "footer" -> parse_footer(data, pos)
      [] kind = "schema" -> parse_schema(data, pos)
      [] kind = "channel" -> parse_channel(data, pos)
      [] kind = "message" -> parse_message(data, pos)
      [] kind = "chunk" -> parse_chunk(data, pos)
      [] kind = "chunk_index" -> parse_chunk_index(data, pos)
      [] kind = "attachment" -> parse_attachment(data, pos)
      [] kind = "attachment_index" -> parse_attachment_index(data, pos)
      [] kind = "metadata" -> parse_metadata(data, pos)
      [] kind = "metadata_index" -> parse_metadata_index(data, pos)
      [] kind = "statistics" -> parse_statistics(data, pos)

\* a map with the one entry k -> v
OneEntry(k, v) == MapInsert(EmptyMap, k, v)

\* one record of every kind as the writer encodes it, the schema with the id
\* 0 among them
SampleRecords ==
    { [kind |-> "header",
       bytes |-> write_header_record([profile |-> Profile, library |-> <<112>>])],
      [kind |-> "footer",
       bytes |-> write_footer_record([summary_start |-> 1, summary_offset_start |-> 2,
                                      summary_crc |-> 3])],
      [kind |-> "channel",
       bytes |-> encode_channel_record(
                     [id |-> 1, schema_id |-> 1, topic |-> <<97>>,
                      message_encoding |-> <<>>, metadata |-> OneEntry(<<107>>, <<118>>)])],
      [kind |-> "message", bytes |-> encode_message_record(MessageOf(2, 1, 1))],
      [kind |-> "chunk",
       bytes |-> write_chunk_record(
                     [message_start_time |-> 1, message_end_time |-> 2,
                      uncompressed_size |-> 2, uncompressed_crc |-> <<0, 0, 0, 0>>,
                      compression |-> <<>>, records |-> <<7, 7>>])],
      [kind |-> "chunk_index",
       bytes |-> write_chunk_index_record(
                     [message_start_time |-> 1, message_end_time |-> 2,
                      chunk_start_offset |-> 8, chunk_length |-> 9,
                      message_index_offsets |-> OneEntry(1, 5),
                      message_index_length |-> 0, compression |-> <<>>,
                      compressed_size |-> 2, uncompressed_size |-> 2])],
      [kind |-> "attachment_index",
       bytes |-> write_attachment_index_record(
                     [offset |-> 8, length |-> 9, log_time |-> 1, create_time |-> 1,
                      data_size |-> 1, name |-> <<97>>, media_type |-> <<>>])],
      [kind |-> "metadata",
       bytes |-> write_metadata_record(
                     [name |-> <<109>>, metadata |-> OneEntry(<<107>>, <<118>>)])],
      [kind |-> "metadata_index",
       bytes |-> write_metadata_index_record(
                     [offset |-> 8, length |-> 9, name |-> <<109>>])],
      [kind |-> "statistics",
       bytes |-> write_statistics_record(
                     [message_count |-> 1, schema_count |-> 1, channel_count |-> 1,
                      attachment_count |-> 0, metadata_count |-> 0, chunk_count |-> 1,
                      message_start_time |-> 1, message_end_time |-> 1,
                      channel_message_counts |-> OneEntry(1, 1)], <<1>>)] }
    \cup { [kind |-> "schema", bytes |-> encode_schema_record(s)] : s \in Schemas }
    \cup { [kind |-> "attachment", bytes |-> write_attachment_record(a)] : a \in Attachments }

\* the values one byte b of a record is changed to
Changes(b) == {0, 255} \cup ({b - 1, b + 1} \cap (0..255))

\* the bytes before the record and the bytes behind it
BytesBefore == {<<>>, <<0, 0, 0>>}

BytesBehind == {<<>>, <<0, 0, 0, 0, 0, 0, 0, 0, 0, 0, 0, 0>>}

InitRecord ==
    /\ pc = "record"
    /\ \E r \in SampleRecords, before \in BytesBefore, behind \in BytesBehind :
       \E at \in 0..(Len(r.bytes) - 1) :
       \E b \in Changes(r.bytes[at + 1]) \cup {r.bytes[at + 1]} :
          query = [op |-> "record", kind |-> r.kind, pos |-> Len(before),
                   data |-> before \o Poke(r.bytes, at, b) \o behind]
    /\ res = None
    /\ file = <<>>
    /\ w = None
    /\ calls = 0
    /\ written = <<>>
    /\ tamper = NoTamper
    /\ rd = None
    /\ enc = None
    /\ dec = None
    /\ cdr = <<>>
    /\ log = <<>>
    /\ reads = 0

\* McapRecordParser::parse_*(reader), the reader at query.pos of query.data
ParseAt ==
    /\ pc = "record"
    /\ res' = parse_record(query.kind, query.data, query.pos)
    /\ pc' = "record parsed"
    /\ UNCHANGED <<w, calls, written, file, tamper, rd, query, enc, dec, cdr, log, reads>>

NextRecord == ParseAt

SpecRecord == InitRecord /\ [][NextRecord]_vars


(***************************************************************************)
(* The map readers on their own (mcap/parser.rs): a map as the writer      *)
(* encodes it, its u32 prefix kept or replaced by another byte count, with *)
(* bytes of the record body behind it, read from a cursor at its start.    *)
(***************************************************************************)
\* the maps from some of `keys` to `values`
MapsOf(keys, values) == UNION {[ks -> values] : ks \in SUBSET keys}

\* HashMap<String, String> and HashMap<u16, u64> values
StringMaps == MapsOf({<<>>, <<107>>}, {<<>>, <<118>>})

CountMaps == MapsOf({1, 2}, {0, 5})

\* the bytes the writer's encoder of the map type writes for `map`, its keys
\* iterated in `order`
write_map(type, map, order) ==
    IF type = "map_ss" THEN write_map_string_string(map, order)
    ELSE write_map_u16_u64(map, order)

\* the reader of the map type
read_map(type, buf, c) ==
    IF type = "map_ss" THEN read_map_string_string_cursor(buf, c)
    ELSE read_map_u16_u64_cursor(buf, c)

\* the bytes of the body behind the map: none, a string and a number, zeros
BytesBehindMap == {<<>>, <<1, 0, 0, 0, 97, 2, 0, 0, 0, 0, 0, 0, 0>>, <<0, 0, 0, 0, 0, 0, 0, 0, 0, 0>>}

InitMap ==
    /\ pc = "map"
    /\ \E type \in {"map_ss", "map_u16_u64"}, behind \in BytesBehindMap :
       \E map \in IF type = "map_ss" THEN StringMaps ELSE CountMaps :
       \E order \in Perms(DOMAIN map) :
       \E prefix \in 0..(Len(write_map(type, map, order)) - 4 + Len(behind)) :
          query = [op |-> "map", type |-> type, map |-> map, prefix |-> prefix,
                   written |-> (prefix = Len(write_map(type, map, order)) - 4),
                   buf |-> U32LE(prefix)
                           \o SubSeq(write_map(type, map, order), 5,
                                     Len(write_map(type, map, order)))
                           \o behind]
    /\ res = None
    /\ file = <<>>
    /\ w = None
    /\ calls = 0
    /\ written = <<>>
    /\ tamper = NoTamper
    /\ rd = None
    /\ enc = None
    /\ dec = None
    /\ cdr = <<>>
    /\ log = <<>>
    /\ reads = 0

\* read_map_string_string_cursor(cursor) or read_map_u16_u64_cursor(cursor),
\* the cursor at the start of query.buf
ReadMap ==
    /\ pc = "map"
    /\ res' = read_map(query.type, query.buf, 0)
    /\ pc' = "map read"
    /\ UNCHANGED <<w, calls, written, file, tamper, rd, query, enc, dec, cdr, log, reads>>

NextMap == ReadMap

SpecMap == InitMap /\ [][NextMap]_vars


(***************************************************************************)
(* The two CDR decoders side by side: CdrDecoder and RustCdrDecoder made   *)
(* from one message buffer, and the same typed reads asked of both.        *)
(***************************************************************************)
PrimitiveTypes ==
    {"bool", "i8", "u8", "char", "i16", "u16", "i32", "u32", "f32", "i64", "u64", "f64"}

\* message buffers: a header of either byte order, then 16 bytes that all
\* differ, one of them above 127, or the three float64 of a point
MessageBuffers ==
    { <<0, e, 0, 0>> \o <<1, 2, 3, 4, 5, 6, 7, 8, 9, 10, 11, 12, 13, 14, 200, 0>> :
          e \in {0, 1} }
    \cup {PointPayload}

InitDecoders ==
    /\ pc = "decoders"
    /\ \E data \in MessageBuffers :
          /\ query = [op |-> "decode", data |-> data]
          /\ dec = [ cdr |-> CdrDecoder_new(data).val,
                     rust |-> RustCdrDecoder_new(data).val ]
    /\ cdr = <<>>
    /\ enc = None
    /\ w = None
    /\ calls = 0
    /\ written = <<>>
    /\ file = <<>>
    /\ tamper = NoTamper
    /\ rd = None
    /\ res = None
    /\ log = <<>>
    /\ reads = 0

\* what a typed read returned: the value and the offset in the message
\* buffer of the first byte it was read from
ReadOf(r, at) == [ok |-> r.ok, val |-> IF r.ok THEN r.val ELSE <<>>, at |-> at]

\* the two decoders and the history after the read of `type` returned c from
\* CdrDecoder and r from RustCdrDecoder
BothRead(type, c, r) ==
    /\ dec' = [cdr |-> c.d, rust |-> r.d]
    /\ cdr' = Append(cdr, [ op |-> "read", type |-> type,
                            cdr |-> ReadOf(c, c.d.position - PrimitiveSize(type)),
                            rust |-> ReadOf(r, 4 + r.d.position - PrimitiveSize(type)) ])

\* decoder.read_<type>() on the CdrDecoder and decoder.<type>() on the
\* RustCdrDecoder
DecodeBoth ==
    /\ pc = "decoders" /\ Len(cdr) < MaxCdrOps
    /\ \E type \in PrimitiveTypes, overflow \in {"panic", "wrap"} :
          BothRead(type, CdrDecoder_read_primitive(dec.cdr, type, overflow),
                   RustCdrDecoder_primitive(dec.rust, type))
    /\ UNCHANGED <<pc, w, calls, written, file, tamper, rd, query, res, enc, log, reads>>

NextDecoders == DecodeBoth

SpecDecoders == InitDecoders /\ [][NextDecoders]_vars


(***************************************************************************)
(* The schema parser on its own: Ros2MsgParser::parse applied to a schema  *)
(* name and a schema text.                                                 *)
(***************************************************************************)
\* b"float64 x\nfloat64 y\nfloat64 z\n" (ros2msg.rs, test_parse_simple_schema)
PointText ==
    << <<"float64", " ", "x">>, <<"float64", " ", "y">>, <<"float64", " ", "z">> >>

\* b"byte OK=0\nbyte WARN=1\nbyte ERROR=2\nbyte level\nstring message\n"
\* (ros2msg.rs, test_parse_with_constants)
DiagnosticText ==
    << <<"byte", " ", "OK", "=", "0">>, <<"byte", " ", "WARN", "=", "1">>,
       <<"byte", " ", "ERROR", "=", "2">>, <<"byte", " ", "level">>,
       <<"string", " ", "message">> >>

\* a schema with one sub-schema and a field of a builtin type
StampedText ==
    << <<"builtin_interfaces", "/", "Time", " ", "stamp">>, <<"T", " ", "t">>, Divider,
       <<"MSG:", " ", "p", "/", "T">>, <<"byte", " ", "A", " ", "=", " ", "1">>,
       <<"float64", " ", "x">> >>

SchemaLines ==
    { <<"float64", " ", "x">>, <<"float64", " ", "y">>,
      <<"byte", " ", "OK", "=", "0">>, <<"byte", " ", "WARN", "=", "1">>,
      <<"byte", " ", "level">>, <<"string", " ", "message">>,
      <<"int32", " ", "N", " ", "=", " ", "5">>, <<"int32", " ", "M", " ", "=", "7">>,
      <<"int32", " ", "n", " ", "3">>,
      <<"#", " ", "c">>, <<"float64", " ", "x", " ", "#", " ", "K", "=", "1">>,
      <<"string", " ", "s", " ", "\"", "#", "\"">>,
      <<"float64">>, <<" ">>,
      <<"int32", " ", "B", "=", "abc">>, <<"P", " ", "c", "=", "1">>,
      Divider, <<"MSG:", " ", "p", "/", "T">>,
      <<"builtin_interfaces", "/", "Time", " ", "stamp">>,
      <<"int32", "[", "]", " ", "v">>, <<"string", "<=", "5", " ", "t">> }

SchemaTexts ==
    {PointText, DiagnosticText, StampedText}
    \cup UNION {[1..n -> SchemaLines] : n \in 0..MaxLines}

SchemaNames == {<<"geometry_msgs", "/", "msg", "/", "Point">>}

InitSchema ==
    /\ pc = "schema"
    /\ \E name \in SchemaNames, text \in SchemaTexts :
          query = [op |-> "parse", name |-> name, text |-> text]
    /\ res = None
    /\ file = <<>>
    /\ w = None
    /\ calls = 0
    /\ written = <<>>
    /\ tamper = NoTamper
    /\ rd = None
    /\ enc = None
    /\ dec = None
    /\ cdr = <<>>
    /\ log = <<>>
    /\ reads = 0

\* Ros2MsgParser::new().parse(name, data)
ParseSchema ==
    /\ pc = "schema"
    /\ res' = Ros2MsgParser_parse(query.name, query.text)
    /\ pc' = "parsed"
    /\ UNCHANGED <<w, calls, written, file, tamper, rd, query, enc, dec, cdr, log, reads>>

NextSchema == ParseSchema

SpecSchema == InitSchema /\ [][NextSchema]_vars

InitCdr ==
    /\ pc = "encoding"
    /\ \E little_endian \in BOOLEAN : enc = CdrEncoder_new(little_endian)
    /\ dec = None
    /\ cdr = <<>>
    /\ w = None
    /\ calls = 0
    /\ written = <<>>
    /\ file = <<>>
    /\ tamper = NoTamper
    /\ rd = None
    /\ query = None
    /\ res = None
    /\ log = <<>>
    /\ reads = 0

\* encoder.write_<primitive of `size` bytes>(value); `at`: where its bytes begin
CdrWrite ==
    /\ pc = "encoding" /\ Len(cdr) < MaxCdrOps
    /\ \E size \in CdrSizes :
          /\ enc' = CdrEncoder_write(enc, size, CdrValue(size, Len(cdr) + 1))
          /\ cdr' = Append(cdr, [ op |-> "write", size |-> size,
                                  value |-> CdrValue(size, Len(cdr) + 1),
                                  at |-> Len(enc'.data) - size ])
    /\ UNCHANGED <<pc, w, calls, written, file, tamper, rd, query, res, dec, log, reads>>

\* the decoder after CdrDecoder::new returned r
Decoding(r) ==
    /\ dec' = IF r.ok THEN r.val ELSE None
    /\ pc' = IF r.ok THEN "decoding" ELSE "failed"

\* CdrDecoder::new on the encoder's bytes, or on the three-float64 message
CdrDecode ==
    /\ pc = "encoding"
    /\ \E data \in {enc.data, PointPayload} : Decoding(CdrDecoder_new(data))
    /\ UNCHANGED <<w, calls, written, file, tamper, rd, query, res, enc, cdr, log, reads>>

\* the decoder and the history after a read of `size` bytes returned r;
\* `before`: the cursor when the read was asked for, `at`: the cursor the
\* value was read at
ReadDone(size, r) ==
    /\ dec' = r.d
    /\ cdr' = Append(cdr, [ op |-> "read", size |-> size, ok |-> r.ok,
                            value |-> IF r.ok THEN r.val ELSE <<>>,
                            before |-> dec.position,
                            at |-> IF r.ok THEN r.d.position - size ELSE r.d.position ])

\* decoder.read_<primitive of `size` bytes>()
CdrRead ==
    /\ pc = "decoding" /\ Len(Reads(cdr)) < MaxCdrOps
    /\ \E size \in CdrSizes, overflow \in {"panic", "wrap"} :
          ReadDone(size, CdrDecoder_read(dec, size, overflow))
    /\ UNCHANGED <<pc, w, calls, written, file, tamper, rd, query, res, enc, log, reads>>

NextCdr ==
    \/ CdrWrite
    \/ CdrDecode
    \/ CdrRead

SpecCdr == InitCdr /\ [][NextCdr]_vars

\* the values given to the typed writers
CdrItems ==
    {[type |-> "bool", value |-> b] : b \in BOOLEAN}
    \cup {[type |-> "i8", value |-> -42], [type |-> "u8", value |-> 200],
          [type |-> "char", value |-> 233],
          [type |-> "i16", value |-> -1000], [type |-> "u16", value |-> 65535]}
    \cup {[type |-> t, value |-> CdrValue(4, 1)] : t \in {"i32", "u32", "f32"}}
    \cup {[type |-> t, value |-> CdrValue(8, 2)] : t \in {"i64", "u64", "f64"}}
    \cup {[type |-> "string", value |-> v] : v \in {<<>>, <<0>>, <<104, 105>>}}

\* the encoder after encoder.write_<type>(value)
CdrEncoder_put(e, item) ==
    IF item.type = "string" THEN CdrEncoder_write_string(e, item.value)
    ELSE CdrEncoder_write_primitive(e, item.type, item.value)

\* what decoder.read_<type>() returns
CdrDecoder_get(d, type, overflow) ==
    IF type = "string" THEN CdrDecoder_read_string(d, overflow)
    ELSE CdrDecoder_read_primitive(d, type, overflow)

\* encoder.write_<type>(value); `from`: the length of the buffer before the
\* call, `end`: its length after the call
CdrWriteItem ==
    /\ pc = "encoding" /\ Len(cdr) < MaxCdrOps
    /\ \E item \in CdrItems :
          /\ enc' = CdrEncoder_put(enc, item)
          /\ cdr' = Append(cdr, [ op |-> "write", type |-> item.type,
                                  value |-> item.value,
                                  from |-> Len(enc.data), end |-> Len(enc'.data) ])
    /\ UNCHANGED <<pc, w, calls, written, file, tamper, rd, query, res, dec, log, reads>>

\* CdrDecoder::new(&encoder.into_bytes())
CdrDecodeWritten ==
    /\ pc = "encoding"
    /\ Decoding(CdrDecoder_new(enc.data))
    /\ UNCHANGED <<w, calls, written, file, tamper, rd, query, res, enc, cdr, log, reads>>

\* the decoder and the history after decoder.read_<type>() returned r
ReadItemDone(type, r) ==
    /\ dec' = r.d
    /\ cdr' = Append(cdr, [ op |-> "read", type |-> type, ok |-> r.ok,
                            value |-> IF r.ok THEN r.val ELSE <<>>,
                            from |-> dec.position, end |-> r.d.position ])

\* the typed read that matches the next write: decoder.read_<type>()
CdrReadItem ==
    /\ pc = "decoding" /\ Len(Reads(cdr)) < Len(Writes(cdr))
    /\ \E overflow \in {"panic", "wrap"} :
          ReadItemDone(Writes(cdr)[Len(Reads(cdr)) + 1].type,
                       CdrDecoder_get(dec, Writes(cdr)[Len(Reads(cdr)) + 1].type, overflow))
    /\ UNCHANGED <<pc, w, calls, written, file, tamper, rd, query, res, enc, log, reads>>

NextCdrItems ==
    \/ CdrWriteItem
    \/ CdrDecodeWritten
    \/ CdrReadItem

SpecCdrItems == InitCdr /\ [][NextCdrItems]_vars

(***************************************************************************)
(* Properties.                                                             *)
(***************************************************************************)
\* how many times x occurs in seq
Count(seq, x) == Cardinality({i \in DOMAIN seq : seq[i] = x})

\* a and b hold the same messages, each as many times in a as in b
SameMessages(a, b) ==
    /\ Len(a) = Len(b)
    /\ \A i \in DOMAIN a : Count(a, a[i]) = Count(b, a[i])

\* s <= log_time <= e, an absent bound leaving that side open
InRange(m, s, e) ==
    /\ s = None \/ m.log_time >= Unwrap(s)
    /\ e = None \/ m.log_time <= Unwrap(e)

\* the written messages a query asks for, in the order they were written
Wanted(q) ==
    SelectSeq(written, LAMBDA m :
        /\ q.channel_ids = None \/ m.channel_id \in Unwrap(q.channel_ids)
        /\ InRange(m, q.start_time, q.end_time))

\* seq is in ascending (descending when reverse) order of log_time
Sorted(seq, reverse) ==
    \A i, j \in DOMAIN seq :
        i < j => IF reverse THEN seq[i].log_time >= seq[j].log_time
                 ELSE seq[i].log_time <= seq[j].log_time

\* where the message m stands in seq (a message stands there once)
IndexOf(seq, m) == CHOOSE k \in DOMAIN seq : seq[k] = m

\* out is coll sorted by log_time, messages of equal log_time in coll's order
IsStableSort(out, coll, reverse) ==
    /\ SameMessages(out, coll)
    /\ Sorted(out, reverse)
    /\ \A i, j \in DOMAIN out :
          (i < j /\ out[i].log_time = out[j].log_time)
              => IndexOf(coll, out[i]) < IndexOf(coll, out[j])

\* what the call of `query` collects before it sorts
Collected ==
    messages(rd.val, query.channel_ids, query.start_time, query.end_time,
             FALSE, query.in_reverse, "error")

\* C1: a call of messages with no channel filter and no time bounds, on a file
\* that the writer closed, succeeds and returns exactly the written messages:
\* each one once, with the same channel_id, sequence, log_time, publish_time
\* and data, under every configuration of chunking and compression.
C1_RoundTrip ==
    (pc = "read" /\ query.channel_ids = None /\ query.start_time = None
     /\ query.end_time = None)
        => res.ok /\ SameMessages(res.val, written)

\* three messages went through two or more zstd chunks and were read back
C1_Witness ==
    /\ pc = "read"
    /\ w.chunk_compression = Some(NameZstd)
    /\ Len(w.chunk_indices) >= 2
    /\ Len(written) = MaxCalls
    /\ res.ok /\ Len(res.val) = MaxCalls

\* C2: a call of messages with a channel filter {c}, both time bounds and
\* in_log_time_order returns exactly the written messages of channel c with
\* log_time in [start_time, end_time], ascending by log_time, or descending
\* when in_reverse is set.
C2_ChannelTimeFilter ==
    (pc = "read" /\ IsSome(query.channel_ids) /\ IsSome(query.start_time)
     /\ IsSome(query.end_time) /\ query.in_log_time_order)
        => /\ res.ok
           /\ SameMessages(res.val, Wanted(query))
           /\ Sorted(res.val, query.in_reverse)

\* the statistics and the chunk indices of the open file
StatisticsOf(summary) == Unwrap(summary.statistics)

\* [a.start, a.end] lies inside [b.start, b.end]
RangeWithin(a, b) ==
    /\ b.message_start_time <= a.message_start_time
    /\ a.message_end_time <= b.message_end_time

\* C3: in a closed file the Statistics record has message_start_time <=
\* message_end_time, and the time range of every Chunk record and of every
\* ChunkIndex record lies inside the range of the Statistics record.
C3_TimeRanges ==
    pc = "open" =>
        /\ StatisticsOf(rd.val.summary).message_start_time
               <= StatisticsOf(rd.val.summary).message_end_time
        /\ \A i \in DOMAIN rd.val.summary.chunk_indices :
              /\ RangeWithin(rd.val.summary.chunk_indices[i],
                             StatisticsOf(rd.val.summary))
              /\ RangeWithin(parse_chunk(file,
                                 rd.val.summary.chunk_indices[i].chunk_start_offset).val,
                             StatisticsOf(rd.val.summary))

\* C4: an encoder that writes a u8 and then a primitive of size k in
\* {2, 4, 8} puts the primitive at a physical offset congruent to 4 mod k.
C4_EncoderAlignment ==
    (pc = "encoding" /\ Len(cdr) = 2 /\ cdr[1].size = 1 /\ cdr[2].size \in {2, 4, 8})
        => cdr[2].at % cdr[2].size = 4 % cdr[2].size

\* the three float64 values of PointPayload, as three reads return them
PointReads ==
    /\ Len(Reads(cdr)) = 3
    /\ \A n \in 1..3 : Reads(cdr)[n].ok /\ Reads(cdr)[n].value = F64LE(n)

\* C5: before a read of size k the decoder moves its cursor by the smallest
\* amount that makes (cursor - 4) mod k = 0, and the message of the three
\* float64 values 1.0, 2.0, 3.0 decodes to these values without error.
C5_DecoderAlignment ==
    pc = "decoding" =>
        /\ \A n \in DOMAIN Reads(cdr) :
              /\ (Reads(cdr)[n].at - 4) % Reads(cdr)[n].size = 0
              /\ Reads(cdr)[n].at - Reads(cdr)[n].before < Reads(cdr)[n].size
        /\ (dec.data = PointPayload /\ Len(Reads(cdr)) = 3
            /\ \A n \in 1..3 : Reads(cdr)[n].size = 8) => PointReads

\* C6 as stated: a file the writer closed opens, and a change of any one of
\* the 8 magic bytes at either end makes the opening fail with
\* InvalidMagicBytes.
C6_AnyMagicByte ==
    pc \in {"open", "rejected"} =>
        /\ tamper.kind = "none" => rd.ok
        /\ tamper.kind = "magic" => ~rd.ok /\ rd.err.kind = "InvalidMagicBytes"

\* C6: a file the writer closed opens; a change of any one of the seven magic
\* bytes other than the version byte (index 5), at the start or at the end of
\* the file, makes the opening fail with InvalidMagicBytes; a change of the
\* version byte alone is accepted.
C6_MagicCheck ==
    pc \in {"open", "rejected"} =>
        /\ tamper.kind = "none" => rd.ok
        /\ (tamper.kind = "magic" /\ tamper.index # 5)
              => ~rd.ok /\ rd.err.kind = "InvalidMagicBytes"
        /\ (tamper.kind = "magic" /\ tamper.index = 5) => rd.ok

\* the last byte of the end magic was changed and the file was rejected
C6_Witness ==
    /\ pc = "rejected"
    /\ tamper.kind = "magic" /\ tamper.at = Len(file) - 1
    /\ Len(written) > 0

\* C7 as stated: with the CRC check on, a file the writer closed is read
\* without error, and after a flip of any one bit of the stored records of a
\* chunk messages() fails with CrcMismatch, carrying the stored and the
\* computed CRC, and returns no message.
C7_AnyChunkFlip ==
    (pc = "read" /\ rd.val.enable_crc_check) =>
        /\ tamper.kind = "none" => res.ok
        /\ tamper.kind = "flip" =>
              /\ ~res.ok
              /\ res.err = [ kind |-> "CrcMismatch",
                             expected |-> tamper.uncompressed_crc,
                             computed |-> compute_crc(tamper.records) ]

\* C7: with the CRC check on, a file the writer closed with no compression
\* or with zstd is read without error, and the only error met in reading a
\* file written with lz4 is a DecompressionError; after a flip of one bit of
\* the stored records of an uncompressed chunk messages() fails with
\* CrcMismatch, carrying the stored CRC and the CRC of the flipped bytes,
\* and returns no message; after a flip in a compressed chunk a failure is
\* a DecompressionError or a CrcMismatch.
C7_ChunkCrc ==
    (pc = "read" /\ rd.val.enable_crc_check) =>
        /\ (tamper.kind = "none" /\ w.chunk_compression # Some(NameLz4)) => res.ok
        /\ (tamper.kind = "none" /\ ~res.ok) => res.err.kind = "DecompressionError"
        /\ (tamper.kind = "flip" /\ tamper.compression \in {<<>>, NameNone}) =>
              /\ ~res.ok
              /\ res.err = [ kind |-> "CrcMismatch",
                             expected |-> tamper.uncompressed_crc,
                             computed |-> compute_crc(tamper.records) ]
        /\ (tamper.kind = "flip" /\ tamper.compression \notin {<<>>, NameNone}
            /\ ~res.ok)
              => res.err.kind \in {"DecompressionError", "CrcMismatch"}

\* a bit of the second uncompressed chunk was flipped and the read failed
C7_Witness ==
    /\ pc = "read" /\ rd.val.enable_crc_check
    /\ tamper.kind = "flip" /\ tamper.chunk = 2
    /\ tamper.compression \in {<<>>, NameNone}
    /\ ~res.ok /\ res.err.kind = "CrcMismatch"

\* C8: when the linear scan of messages() meets a record of the data section
\* whose opcode and length parse but whose length reaches past the end of
\* the file, the call fails.
C8_NoSilentOverrun ==
    (pc = "read" /\ tamper.kind = "overrun"
     /\ rd.val.summary.chunk_indices = <<>>
     /\ tamper.at < rd.val.footer.summary_start
     /\ tamper.opcode # OpDataEnd)
        => ~res.ok

\* C9: with in_log_time_order the messages that messages() returns are the
\* collected messages sorted by log_time, ascending or (in_reverse)
\* descending, and any two messages of equal log_time stand in the order
\* in which they were collected.
C9_StableOrder ==
    (pc = "read" /\ query.in_log_time_order /\ res.ok)
        => Collected.ok /\ IsStableSort(res.val, Collected.val, query.in_reverse)

\* a descending sort moved messages and kept two of equal log_time in order
C9_Witness ==
    /\ pc = "read" /\ query.in_log_time_order /\ query.in_reverse
    /\ res.ok /\ res.val # Collected.val
    /\ \E i, j \in DOMAIN res.val : i < j /\ res.val[i].log_time = res.val[j].log_time

\* C10: with no channel filter, messages(start_time, end_time) returns
\* exactly the written messages with start_time <= log_time <= end_time, both
\* bounds included, from chunked and from unchunked files.
C10_InclusiveTimeFilter ==
    (pc = "read" /\ query.channel_ids = None)
        => res.ok /\ SameMessages(res.val, Wanted(query))

\* of two chunks, the one whose only message sits on both bounds is returned
C10_Witness ==
    /\ pc = "read" /\ query.channel_ids = None
    /\ query.start_time = Some(MaxTime) /\ query.end_time = Some(MaxTime)
    /\ Len(rd.val.summary.chunk_indices) >= 2
    /\ res.ok /\ Len(res.val) > 0 /\ Len(res.val) < Len(written)

\* the sum of the values of a map over `keys`
RECURSIVE SumOver(_, _)
SumOver(map, keys) ==
    IF keys = {} THEN 0
    ELSE LET k == CHOOSE x \in keys : TRUE
         IN  map[k] + SumOver(map, keys \ {k})

\* how many write_message calls were made with the channel id c
CallsOn(c) == Len(SelectSeq(written, LAMBDA m : m.channel_id = c))

\* message_count is the number of calls, and counts[c] the number of calls
\* with the channel id c (no entry for a channel without calls)
CountsCalls(message_count, counts) ==
    /\ message_count = Len(written)
    /\ SumOver(counts, DOMAIN counts) = Len(written)
    /\ \A c \in ChannelIds :
          IF c \in DOMAIN counts THEN counts[c] = CallsOn(c) ELSE CallsOn(c) = 0

\* C11: after any sequence of write_message calls the writer's message_count
\* is the number of calls and the sum of channel_message_counts, and
\* channel_message_counts[c] is the number of calls with channel_id c; the
\* Statistics record of the closed file carries the same values.
C11_MessageCounts ==
    /\ pc \in {"writing", "closed", "open", "read"}
          => CountsCalls(w.message_count, w.channel_message_counts)
    /\ pc \in {"open", "read"}
          => CountsCalls(StatisticsOf(rd.val.summary).message_count,
                         StatisticsOf(rd.val.summary).channel_message_counts)

\* three messages on two channels were counted and the file was opened
C11_Witness ==
    /\ pc = "open"
    /\ Len(written) = MaxCalls
    /\ DOMAIN StatisticsOf(rd.val.summary).channel_message_counts = ChannelIds


\* the reader was asked op with no filter and answered
Asked(op) ==
    /\ pc = "read" /\ res.ok /\ query.op = op
    /\ op \in {"attachments", "metadata"} => query.name_filter = None

\* the counts of the Statistics record against what the reader reports
CountsReadBack(stats, summary) ==
    /\ stats.schema_count = Cardinality(DOMAIN summary.schemas)
    /\ stats.channel_count = Cardinality(DOMAIN summary.channels)
    /\ stats.chunk_count = Len(summary.chunk_indices)
    /\ Asked("attachments") => stats.attachment_count = Len(res.val)
    /\ Asked("metadata") => stats.metadata_count = Len(res.val)

\* nothing was written between the construction of the writer and close
NothingWritten(stats, summary) ==
    /\ stats.message_count = 0
    /\ DOMAIN summary.schemas = {}
    /\ DOMAIN summary.channels = {}
    /\ Asked("messages") => res.val = <<>>

\* C12: the schema, channel, chunk, attachment and metadata counts of the
\* Statistics record equal the numbers of schemas, channels, chunk indices,
\* attachments and metadata records the reader reports for the file, and a
\* file closed with nothing written reads back with no message, schema or
\* channel and a message count of 0.
C12_StatisticsCounts ==
    pc \in {"open", "read"} =>
        /\ CountsReadBack(StatisticsOf(rd.val.summary), rd.val.summary)
        /\ log = <<>> => NothingWritten(StatisticsOf(rd.val.summary), rd.val.summary)

\* every schema given to write_schema has a nonzero id
NonzeroSchemaIds ==
    \A i \in 1..Len(log) : log[i].op = "schema" => log[i].arg.id /= 0

\* C12 (amended): when every written schema has a nonzero id, the schema,
\* channel, chunk, attachment and metadata counts of the Statistics record
\* equal the numbers of schemas, channels, chunk indices, attachments and
\* metadata records the reader reports, and a file closed with nothing
\* written reads back with no message, schema or channel and message count 0.
C12_CountsOfNonzeroIds ==
    (pc \in {"open", "read"} /\ NonzeroSchemaIds) =>
        /\ CountsReadBack(StatisticsOf(rd.val.summary), rd.val.summary)
        /\ log = <<>> => NothingWritten(StatisticsOf(rd.val.summary), rd.val.summary)

C12_Witness ==
    /\ Asked("attachments") /\ NonzeroSchemaIds
    /\ Len(res.val) = 1
    /\ StatisticsOf(rd.val.summary).schema_count = 1
    /\ StatisticsOf(rd.val.summary).channel_count = 1

\* the record a write_schema, write_channel or write_message call encodes
RecordOf(call) ==
    IF call.op = "schema" THEN encode_schema_record(call.arg)
    ELSE IF call.op = "channel" THEN encode_channel_record(call.arg)
    ELSE encode_message_record(call.arg)

\* the step is a write_schema, write_channel or write_message call that
\* returned Ok
BufferedCall ==
    /\ pc = "writing" /\ pc' = "writing"
    /\ Len(log') = Len(log) + 1
    /\ log'[Len(log')].op \in {"schema", "channel", "message"}

\* the step wrote the buffer to the sink as one Chunk record
Flushed ==
    /\ w'.chunk_buffer = <<>>
    /\ Len(w'.chunk_indices) = Len(w.chunk_indices) + 1
    /\ Len(w'.writer) > Len(w.writer)
    /\ Slice(w'.writer, 0, Len(w.writer)) = w.writer
    /\ w'.writer[Len(w.writer) + 1] = OpChunk
    /\ Len(w'.writer) = Len(w.writer) + 9 + FromLE(Slice(w'.writer, Len(w.writer) + 1, 8))

\* the step left the sink alone and the buffer holds `buffer`
Buffered(buffer) ==
    /\ w'.chunk_buffer = buffer
    /\ w'.writer = w.writer
    /\ w'.chunk_indices = w.chunk_indices

\* what a call does on a writer with chunk_size = Some(n)
ChunkedCall(call, buffer, n) ==
    /\ IF call.op = "message" /\ Len(buffer) >= n THEN Flushed ELSE Buffered(buffer)
    /\ call.op = "message" => Len(w'.chunk_buffer) < n

\* what a call does on a writer without chunk_size
DirectCall(call) ==
    /\ w'.writer = w.writer \o RecordOf(call)
    /\ w'.chunk_buffer = <<>>
    /\ w'.chunk_indices = <<>>

FlushThreshold ==
    BufferedCall =>
        IF IsSome(w.chunk_size)
        THEN ChunkedCall(log'[Len(log')],
                         w.chunk_buffer \o RecordOf(log'[Len(log')]),
                         Unwrap(w.chunk_size))
        ELSE DirectCall(log'[Len(log')])

RECURSIVE RecordsIn(_, _, _)
RecordsIn(data, pos, stop) ==
    IF pos + 9 > stop THEN <<>>
    ELSE << [ opcode |-> data[pos + 1], offset |-> pos,
              length |-> 9 + FromLE(Slice(data, pos + 1, 8)) ] >>
         \o RecordsIn(data, pos + 9 + FromLE(Slice(data, pos + 1, 8)), stop)

Opcodes(records) == {records[i].opcode : i \in 1..Len(records)}

\* the bytes that the stored block or frame of a chunk holds: the literals
\* behind the LZ4 token and its length bytes, the content of the zstd frame
ChunkBytes(chunk) ==
    IF chunk.compression = NameLz4
    THEN SubSeq(chunk.records, Len(chunk.records) - chunk.uncompressed_size + 1,
                Len(chunk.records))
    ELSE IF chunk.compression = NameZstd THEN SubSeq(chunk.records, 7, Len(chunk.records))
    ELSE chunk.records

\* the uncompressed records of the Chunk record at offset pos of data

Inside(data, pos) == ChunkBytes(parse_chunk(data, pos).val)

\* the arguments of the write_* calls of one kind, in call order
Args(op) ==
    [ i \in 1..Len(SelectSeq(log, LAMBDA call : call.op = op)) |->
          SelectSeq(log, LAMBDA call : call.op = op)[i].arg ]

\* entry holds the offset of the opcode byte and the full length of record
IndexedAt(sink, entry, record) ==
    /\ entry.offset + entry.length <= Len(sink)
    /\ Slice(sink, entry.offset, entry.length) = record

\* every index entry of the writer points at the record of its call
AllIndexed ==
    /\ Len(w.attachment_indices) = Len(Args("attachment"))
    /\ Len(w.metadata_indices) = Len(Args("metadata"))
    /\ \A i \in 1..Len(w.attachment_indices) :
          IndexedAt(w.writer, w.attachment_indices[i],
                    write_attachment_record(Args("attachment")[i]))
    /\ \A i \in 1..Len(w.metadata_indices) :
          IndexedAt(w.writer, w.metadata_indices[i],
                    write_metadata_record(Args("metadata")[i]))

\* after a write_attachment or write_metadata call nothing is pending: all
\* that was written before is in the sink, below the record of the call
NothingPending ==
    (pc = "writing" /\ log # <<>> /\ log[Len(log)].op \in {"attachment", "metadata"}) =>
        /\ w.chunk_buffer = <<>>
        /\ IF log[Len(log)].op = "attachment"
           THEN w.attachment_indices[Len(w.attachment_indices)].offset
                + w.attachment_indices[Len(w.attachment_indices)].length = Len(w.writer)
           ELSE w.metadata_indices[Len(w.metadata_indices)].offset
                + w.metadata_indices[Len(w.metadata_indices)].length = Len(w.writer)

\* no chunk of the closed file, and not the pending buffer, holds an
\* Attachment or a Metadata record
OutsideChunks ==
    /\ Opcodes(RecordsIn(w.chunk_buffer, 0, Len(w.chunk_buffer)))
          \subseteq {OpSchema, OpChannel, OpMessage}
    /\ pc \in {"closed", "open", "read"} =>
          \A i \in 1..Len(w.chunk_indices) :
              Opcodes(RecordsIn(Inside(file, w.chunk_indices[i].chunk_start_offset), 0,
                                w.chunk_indices[i].uncompressed_size))
                  \subseteq {OpSchema, OpChannel, OpMessage}

\* the records a call with name_filter is to return
Named(records, name_filter) ==
    SelectSeq(records, LAMBDA r : name_filter = None \/ r.name = Unwrap(name_filter))

\* C14: write_attachment and write_metadata leave no chunk pending, no
\* Attachment or Metadata record is inside a chunk, each index entry holds the
\* offset of the opcode byte and the full length of its record, and
\* McapReader.attachments and McapReader.metadata return every written record
\* in write order, or with a name filter exactly those of that name.
C14_OutsideChunks ==
    /\ pc \in {"writing", "closed", "open", "read"} =>
          AllIndexed /\ NothingPending /\ OutsideChunks
    /\ (pc = "read" /\ query.op = "attachments") =>
          res.ok /\ res.val = Named(Args("attachment"), query.name_filter)
    /\ (pc = "read" /\ query.op = "metadata") =>
          res.ok /\ res.val = Named(Args("metadata"), query.name_filter)

C14_Witness ==
    /\ pc = "read" /\ query.op = "attachments"
    /\ IsSome(query.name_filter)
    /\ Len(res.val) = 1
    /\ Len(Args("attachment")) = 2
    /\ Len(w.chunk_indices) = 1

Repeat(x, n) == [i \in 1..n |-> x]

OpcodeSeq(records) == [i \in 1..Len(records) |-> records[i].opcode]

\* the bytes of the records of one opcode, as a set
BytesOf(data, records, opcode) ==
    { Slice(data, records[i].offset, records[i].length) :
          i \in {j \in 1..Len(records) : records[j].opcode = opcode} }

\* a chunk is pending in the writer
Pending(wr) == IsSome(wr.chunk_size) /\ wr.chunk_buffer # <<>>

\* the opcodes close is to emit after what the sink holds
CloseOrder(wr) ==
    (IF Pending(wr) THEN <<OpChunk>> ELSE <<>>)
    \o <<OpDataEnd>>
    \o Repeat(OpSchema, Cardinality(DOMAIN wr.schemas))
    \o Repeat(OpChannel, Cardinality(DOMAIN wr.channels))
    \o Repeat(OpChunkIndex, Len(wr.chunk_indices) + (IF Pending(wr) THEN 1 ELSE 0))
    \o Repeat(OpAttachmentIndex, Len(wr.attachment_indices))
    \o Repeat(OpMetadataIndex, Len(wr.metadata_indices))
    \o <<OpStatistics, OpFooter>>

\* emitted: the records of data from the end of the sink to the end magic
ClosedAs(wr, data, emitted) ==
    /\ Slice(data, 0, Len(wr.writer)) = wr.writer
    /\ Slice(data, Len(data) - 8, 8) = MAGIC_BYTES
    /\ OpcodeSeq(emitted) = CloseOrder(wr)
    /\ Pending(wr) => Inside(data, Len(wr.writer)) = wr.chunk_buffer
    /\ BytesOf(data, emitted, OpDataEnd) = {<<OpDataEnd>> \o U64LE(4) \o U32LE(0)}
    /\ BytesOf(data, emitted, OpSchema)
          = {encode_schema_record(wr.schemas[k]) : k \in DOMAIN wr.schemas}
    /\ BytesOf(data, emitted, OpChannel)
          = {encode_channel_record(wr.channels[k]) : k \in DOMAIN wr.channels}
    /\ emitted[Len(emitted)].offset = Len(data) - 37
    /\ emitted[Len(emitted)].length = 29
    /\ parse_footer(data, Len(data) - 37).val
          = [ summary_start |->
                  emitted[IF Pending(wr) THEN 2 ELSE 1].offset
                  + emitted[IF Pending(wr) THEN 2 ELSE 1].length,
              summary_offset_start |-> 0,
              summary_crc |-> 0 ]

\* C15: close writes the pending chunk if there is one, the DataEnd record
\* with CRC 0 and then, from the offset the footer stores as summary_start,
\* all Schemas, all Channels, all ChunkIndex, all AttachmentIndex and all
\* MetadataIndex records, one Statistics record, the Footer with
\* summary_offset_start = 0 and summary_crc = 0 in the 29 bytes before the end
\* magic, and the end magic; it writes no SummaryOffset record.
C15_CloseOrder ==
    [][(pc = "writing" /\ pc' = "closed") =>
          ClosedAs(w, file', RecordsIn(file', Len(w.writer), Len(file') - 8))]_vars

C15_Witness ==
    /\ pc = "closed"
    /\ w.chunk_size = Some(ChunkSize)
    /\ Len(log) = 3
    /\ log[1].op = "schema" /\ log[2].op = "attachment" /\ log[3].op = "message"
    /\ log[3].arg.channel_id = 1
    /\ Len(w.chunk_indices) = 2

\* the bytes of each record of data between pos and stop, in order
RecordBytes(data, pos, stop) ==
    [ i \in 1..Len(RecordsIn(data, pos, stop)) |->
          Slice(data, RecordsIn(data, pos, stop)[i].offset,
                RecordsIn(data, pos, stop)[i].length) ]

\* the records, each chunk replaced by the records it holds once decompressed
RECURSIVE Expanded(_, _)
Expanded(data, records) ==
    IF records = <<>> THEN <<>>
    ELSE (IF Head(records).opcode = OpChunk
          THEN RecordBytes(Inside(data, Head(records).offset), 0,
                           Len(Inside(data, Head(records).offset)))
          ELSE <<Slice(data, Head(records).offset, Head(records).length)>>)
         \o Expanded(data, Tail(records))

\* the Schema, Channel and Message records of the data section of a closed
\* file, the chunks expanded in file order
DataSection(data) ==
    SelectSeq(Expanded(data, RecordsIn(data, 8,
                  parse_footer(data, Len(data) - 37).val.summary_start)),
              LAMBDA record : record[1] \in {OpSchema, OpChannel, OpMessage})

\* the records of the write_schema, write_channel and write_message calls
CallRecords ==
    [ i \in 1..Len(SelectSeq(log, LAMBDA call :
                       call.op \in {"schema", "channel", "message"})) |->
          RecordOf(SelectSeq(log, LAMBDA call :
                       call.op \in {"schema", "channel", "message"})[i]) ]

Increasing(chunk_indices) ==
    \A i \in 1..(Len(chunk_indices) - 1) :
        chunk_indices[i].chunk_start_offset < chunk_indices[i + 1].chunk_start_offset

\* C16: in the data section of a closed file, the chunks decompressed and
\* taken in file order, the Schema, Channel and Message records are those of
\* the write_schema, write_channel and write_message calls in call order, and
\* the chunk_start_offset of the ChunkIndex list is strictly increasing.
C16_WriteOrder ==
    /\ pc \in {"writing", "closed"} => Increasing(w.chunk_indices)
    /\ pc = "closed" => DataSection(file) = CallRecords

C16_Witness ==
    /\ pc = "closed"
    /\ w.chunk_size = Some(ChunkSize)
    /\ Len(log) = 3
    /\ log[1].op = "message" /\ log[2].op = "schema" /\ log[3].op = "channel"
    /\ Len(w.chunk_indices) = 2

\* the call failed with the error `kind`
FailedAs(r, kind) == ~r.ok /\ r.err.kind = kind

\* C17: a file whose footer, at filesize - 37, declares a body length other
\* than 20 is rejected at open with the InvalidMcap error by McapReader and by
\* FastMcapReader, and no reader is built on it.
C17_FooterLength ==
    tamper.kind = "footer" =>
        /\ FromLE(Slice(file, Len(file) - 36, 8)) # 20
        /\ \A enable_crc_check \in BOOLEAN :
               FailedAs(McapReader_new(file, enable_crc_check), "InvalidMcap")
        /\ \A overflow \in {"panic", "wrap"} :
               FailedAs(FastMcapReader_open(file, overflow), "InvalidMcap")
        /\ pc \in {"closed", "rejected", "unmapped"}
        /\ pc \in {"rejected", "unmapped"} => FailedAs(rd, "InvalidMcap")

C17_Witness ==
    /\ pc = "unmapped"
    /\ tamper.kind = "footer"
    /\ Len(written) = MaxShortCalls

\* map holds what `given` holds under the nonzero keys, and nothing else
SameTable(map, given) ==
    /\ DOMAIN map = DOMAIN given \ {0}
    /\ \A k \in DOMAIN map : map[k] = given[k]

\* what open builds from a file without summary: the Schema and Channel
\* records that stand in the data section itself, and nothing else
Rescanned(summary) ==
    /\ summary.statistics = None
    /\ summary.chunk_indices = <<>>
    /\ summary.attachment_indices = <<>>
    /\ summary.metadata_indices = <<>>
    /\ IF IsSome(w.chunk_size)
       THEN DOMAIN summary.schemas = {} /\ DOMAIN summary.channels = {}
       ELSE SameTable(summary.schemas, w.schemas)
            /\ SameTable(summary.channels, w.channels)

\* the accessors that need the Statistics record have nothing to return
Unavailable(answer) ==
    /\ answer.statistics = None
    /\ answer.start_time = None
    /\ answer.end_time = None
    /\ \A topic \in Topics : answer.message_count[topic] = None

\* C18: on a file whose footer has summary_start = 0, open rescans the data
\* section for Schema and Channel records only; statistics(), start_time(),
\* end_time() and message_count(topic) are None, the chunk index list is empty
\* and messages() scans the records from just after the header up to DataEnd,
\* returning the Message records that stand there.
C18_NoSummary ==
    tamper.kind = "nosummary" =>
        /\ pc # "rejected"
        /\ pc \in {"open", "read"} =>
              rd.val.footer.summary_start = 0 /\ Rescanned(rd.val.summary)
        /\ (pc = "read" /\ query.op = "inspect") => Unavailable(res.val)
        /\ (pc = "read" /\ query.op = "messages") =>
              res.ok /\ res.val = IF IsSome(w.chunk_size) THEN <<>> ELSE written

C18_Witness ==
    /\ tamper.kind = "nosummary"
    /\ pc = "read" /\ query.op = "messages"
    /\ w.chunk_size = None
    /\ Len(res.val) = 1
    /\ DOMAIN rd.val.summary.schemas = {1}
    /\ DOMAIN rd.val.summary.channels = {1}

\* the message a MessageRef stands for, its data read out of the mapped file
Deref(data, ref) ==
    [ channel_id |-> ref.channel_id, sequence |-> ref.sequence,
      log_time |-> ref.log_time, publish_time |-> ref.publish_time,
      data |-> Slice(data, ref.data_start, ref.data_end - ref.data_start) ]

\* the data of every MessageRef lies inside the mapped file
InsideFile(data, refs) ==
    \A i \in 1..Len(refs) :
        0 <= refs[i].data_start /\ refs[i].data_start <= refs[i].data_end
        /\ refs[i].data_end <= Len(data)

\* the iterator as its first None leaves it
RECURSIVE Drained(_, _)
Drained(data, it) ==
    IF DirectMessageIterator_next(data, it).item = None
    THEN DirectMessageIterator_next(data, it).it
    ELSE Drained(data, DirectMessageIterator_next(data, it).it)

\* the iterator stopped behind the header of the DataEnd record, inside the
\* data section, and yields nothing more
EndsAtDataEnd(fast, it) ==
    /\ it.position <= fast.data_end
    /\ fast.mmap[it.position - 9 + 1] = OpDataEnd
    /\ DirectMessageIterator_next(fast.mmap, it).item = None

\* McapReader.messages with no filter on the same file
LinearMessages ==
    messages(McapReader_new(file, FALSE).val, None, None, None, FALSE, FALSE, "error")

\* C19: on an unchunked file of the writer, iter_messages yields one
\* MessageRef per written message, in file order, with the fields and data
\* bytes McapReader.messages returns with no filter; every data slice lies
\* inside the mapped file, the other records yield nothing and the iteration
\* ends at DataEnd.
C19_DirectIterator ==
    (pc = "iterated" /\ w.chunk_size = None) =>
        /\ Len(res.val) = Len(written)
        /\ InsideFile(file, res.val)
        /\ [i \in 1..Len(res.val) |-> Deref(file, res.val[i])] = written
        /\ [i \in 1..Len(res.val) |-> Deref(file, res.val[i])] = LinearMessages.val
        /\ EndsAtDataEnd(rd.val, Drained(file, iter_messages(rd.val)))

C19_Witness ==
    /\ pc = "iterated" /\ w.chunk_size = None
    /\ Len(log) = MaxShortCalls
    /\ log[1].op = "schema" /\ log[MaxShortCalls].op = "message"
    /\ Len(res.val) = 1
    /\ res.val[1].data_end = res.val[1].data_start + 1

\* the reader a fresh open of the same file builds
Fresh == McapReader_new(file, rd.val.enable_crc_check)

\* what the call q returns on the reader rdr
AnswerOf(rdr, q) ==
    IF q.op = "messages"
    THEN messages(rdr, q.channel_ids, q.start_time, q.end_time,
                  q.in_log_time_order, q.in_reverse, q.nd)
    ELSE IF q.op = "attachments" THEN McapReader_attachments(rdr, q.name_filter)
    ELSE McapReader_metadata(rdr, q.name_filter)

\* both calls returned the same value, or failed with the same error
SameResult(a, b) ==
    /\ a.ok = b.ok
    /\ IF a.ok THEN a.val = b.val ELSE a.err = b.err

SameTables(rdr, fresh) ==
    /\ rdr.header = fresh.header
    /\ rdr.footer = fresh.footer
    /\ rdr.summary = fresh.summary
    /\ rdr.topic_to_channel = fresh.topic_to_channel

\* the call before, when it had the arguments of this one, returned the same
SameAsBefore ==
    \A i \in 1..Len(query.before) :
        query.before[i].call = [f \in DOMAIN query \ {"before"} |-> query[f]]
            => SameResult(res, query.before[i].res)

\* the reader against the reader `fresh` that was asked nothing yet
Independent(fresh) ==
    /\ SameTables(rd.val, fresh)
    /\ pc = "read" => SameResult(res, AnswerOf(fresh, query)) /\ SameAsBefore

\* C20: after open the tables of a McapReader never change, and a call of
\* messages, attachments or metadata returns what the same call returns on a
\* reader just opened on the file, whatever calls were made before and
\* whether they failed; the same call made twice returns the same list.
C20_HistoryIndependent ==
    pc \in {"open", "read"} => Independent(Fresh.val)

C20_Witness ==
    /\ pc = "read" /\ reads = MaxReads
    /\ w.chunk_size = None
    /\ query.op = "messages"
    /\ query.before[1].call.op = "messages"
    /\ res.ok /\ Len(res.val) = MaxShortCalls

\* a call that succeeds after a call that failed
C20_AfterFailure ==
    /\ pc = "read" /\ reads = MaxReads
    /\ tamper.kind = "corrupt"
    /\ ~query.before[1].res.ok
    /\ res.ok /\ Len(res.val) >= 1

\* the names that compress_chunk and decompress_chunk accept
AcceptedNames == {<<>>, NameNone, NameLz4, NameZstd}

UnknownCompression(name) == Err([kind |-> "UnknownCompression", name |-> name])

\* C21: compress_chunk and decompress_chunk accept exactly the names "",
\* "none", "lz4" and "zstd"; under "" and "none" they return the input bytes
\* unchanged, under any other name they fail with UnknownCompression
\* carrying the name, and under every accepted name decompress_chunk gives
\* back, from the bytes that compress_chunk returned and the length of x,
\* the byte string x.
C21_CodecRoundTrip ==
    /\ pc = "failed" =>
          /\ query.compression \notin AcceptedNames
          /\ res = UnknownCompression(query.compression)
    /\ pc = "compressed" =>
          /\ query.compression \in AcceptedNames
          /\ query.compression \in {<<>>, NameNone} => file = query.data
    /\ pc = "decoded" =>
          /\ query.compression \notin AcceptedNames
                => res = UnknownCompression(query.compression)
          /\ query.compression \in AcceptedNames
                => (res.ok \/ res.err.kind # "UnknownCompression")
          /\ query.compression \in {<<>>, NameNone} => res = Ok(query.data)
    /\ pc = "decompressed" => res = Ok(query.data)

\* what holds of the codec: C21 for the names "", "none" and "zstd", and
\* under "lz4" compress_chunk succeeds and decompress_chunk fails on the
\* bytes it returned
C21_Lz4Fails ==
    /\ pc \in {"failed", "compressed", "decoded"} => C21_CodecRoundTrip
    /\ pc = "decompressed" =>
          IF query.compression = NameLz4
          THEN res = Err([kind |-> "DecompressionError"])
          ELSE res = Ok(query.data)

Declarations(text) ==
    SelectSeq([i \in DOMAIN text |-> split_whitespace(remove_inline_comment(text[i]))],
              LAMBDA tokens : Len(tokens) >= 2)

\* the NAME token holds a "=", or the token behind it begins with one
DeclaresConstant(tokens) ==
    \/ \E k \in DOMAIN tokens[2] : tokens[2][k] = "="
    \/ Len(tokens) >= 3 /\ tokens[3][1] = "="

DeclaresField(tokens) == ~DeclaresConstant(tokens)

\* the NAME token, up to its first "="
DeclaredName(tokens) ==
    IF \E k \in DOMAIN tokens[2] : tokens[2][k] = "="
    THEN SubSeq(tokens[2], 1,
                (CHOOSE k \in DOMAIN tokens[2] :
                    tokens[2][k] = "=" /\ \A j \in 1..(k - 1) : tokens[2][j] # "=") - 1)
    ELSE tokens[2]

NamesOf(items) == [i \in DOMAIN items |-> items[i].name]

DeclaredNames(declarations) == [i \in DOMAIN declarations |-> DeclaredName(declarations[i])]

\* the constants of schema are the declarations of text with a "=", the fields
\* are the other declarations, each list in the order of the lines
Classified(schema, text) ==
    /\ NamesOf(schema.constants)
          = DeclaredNames(SelectSeq(Declarations(text), DeclaresConstant))
    /\ NamesOf(schema.fields)
          = DeclaredNames(SelectSeq(Declarations(text), DeclaresField))

\* the lines of text before its first divider
MainLines(text) ==
    IF \E i \in DOMAIN text : text[i] = Divider
    THEN SubSeq(text, 1, (CHOOSE i \in DOMAIN text :
                              text[i] = Divider /\ \A j \in 1..(i - 1) : text[j] # Divider) - 1)
    ELSE text

\* text[from..to] is a schema of text under the name sub_name: the lines
\* between a divider followed by "MSG: sub_name" and the next divider or the end
SubLines(text, from, to, sub_name) ==
    /\ from > 2 /\ to <= Len(text)
    /\ text[from - 2] = Divider
    /\ text[from - 1] = <<"MSG:", " ">> \o sub_name
    /\ \A i \in from..to : text[i] # Divider
    /\ to = Len(text) \/ text[to + 1] = Divider

\* no later schema of text has the name sub_name
LastOfName(text, to, sub_name) ==
    \A i \in (to + 1)..Len(text) : text[i] # <<"MSG:", " ">> \o sub_name

Float64 == [kind |-> "Primitive", prim |-> "float64"]

\* C23: in the schemas that parse returns, every line that, without its
\* comment, has two tokens or more is a constant when its NAME token holds a
\* "=" or the token behind it begins with "=", and a field otherwise, each
\* list in the order of the lines; the three float64 lines x, y, z give three
\* Float64 fields x, y, z, no constant and no sub-schema; the lines
\* byte OK=0, byte WARN=1, byte ERROR=2, byte level, string message give
\* three constants of the values 0, 1, 2 and two fields.
C23_LineClassification ==
    pc = "parsed" =>
        /\ res.ok =>
              /\ Classified(res.val.main, MainLines(query.text))
              /\ \A from, to \in DOMAIN query.text :
                    \A sub_name \in {<<"p", "/", "T">>} :
                        (SubLines(query.text, from, to + 0, sub_name)
                         /\ LastOfName(query.text, to, sub_name))
                            => /\ sub_name \in DOMAIN res.val.sub_schemas
                               /\ Classified(res.val.sub_schemas[sub_name],
                                             SubSeq(query.text, from, to))
        /\ query.text = PointText =>
              /\ res.ok
              /\ NamesOf(res.val.main.fields) = << <<"x">>, <<"y">>, <<"z">> >>
              /\ \A i \in 1..3 : res.val.main.fields[i].field_type = Float64
              /\ res.val.main.constants = <<>>
              /\ DOMAIN res.val.sub_schemas = {}
        /\ query.text = DiagnosticText =>
              /\ res.ok
              /\ [i \in 1..Len(res.val.main.constants) |-> res.val.main.constants[i].value]
                    = << [kind |-> "Uint", val |-> 0], [kind |-> "Uint", val |-> 1],
                         [kind |-> "Uint", val |-> 2] >>
              /\ Len(res.val.main.fields) = 2

\* a text of a comment line, a constant written NAME = VALUE and a field
\* whose comment holds a "=" was parsed into one constant and one field
C23_Witness ==
    /\ pc = "parsed" /\ res.ok
    /\ query.text = << <<"#", " ", "c">>, <<"int32", " ", "N", " ", "=", " ", "5">>,
                       <<"float64", " ", "x", " ", "#", " ", "K", "=", "1">> >>
    /\ NamesOf(res.val.main.constants) = << <<"N">> >>
    /\ res.val.main.constants[1].value = [kind |-> "Int", val |-> 5]
    /\ NamesOf(res.val.main.fields) = << <<"x">> >>


(***************************************************************************)
(* C24.  A parse_* call that passes the opcode check decodes the fields    *)
(* from a buffer of exactly `length` bytes: when it returns a record, the  *)
(* ignored schema, or an error of decoding the body, the reader is at      *)
(* record_start + 9 + length, a record is returned only if the body lies   *)
(* within the data, and the result is the same when every byte behind the  *)
(* declared body is cut off.                                               *)
(***************************************************************************)
\* the opcode the parse_* function of a kind expects
OpcodeOf(kind) ==
    CASE kind = "header" -> OpHeader [] kind = "footer" -> OpFooter
      [] kind = "schema" -> OpSchema [] kind = "channel" -> OpChannel
      [] kind = "message" -> OpMessage [] kind = "chunk" -> OpChunk
      [] kind = "chunk_index" -> OpChunkIndex [] kind = "attachment" -> OpAttachment
      [] kind = "attachment_index" -> OpAttachmentIndex
      [] kind = "metadata" -> OpMetadata [] kind = "metadata_index" -> OpMetadataIndex
      [] kind = "statistics" -> OpStatistics

\* the end of the body the record at query.pos declares
DeclaredEnd == query.pos + 9 + FromLE(Slice(query.data, query.pos + 1, 8))

\* an error of decoding the fields of the body
BodyDecodingError ==
    /\ ~res.ok
    /\ \/ res.err.kind = "Io"
       \/ res.err.kind = "InvalidMcap" /\ query.kind # "footer"

C24_BodyIsolation ==
    (pc = "record parsed" /\ query.data[query.pos + 1] = OpcodeOf(query.kind)) =>
        /\ (res.ok \/ BodyDecodingError) => res.pos = DeclaredEnd
        /\ res.ok => DeclaredEnd <= Len(query.data)
        /\ DeclaredEnd <= Len(query.data) =>
              res = parse_record(query.kind, SubSeq(query.data, 1, DeclaredEnd), query.pos)

\* a body that is too short for its fields, with bytes behind it that the
\* fields would have taken
C24_Witness ==
    /\ pc = "record parsed" /\ query.data[query.pos + 1] = OpcodeOf(query.kind)
    /\ query.pos > 0
    /\ ~res.ok /\ res.err.kind = "Io"
    /\ res.pos = DeclaredEnd /\ DeclaredEnd < Len(query.data)
    /\ DeclaredEnd > query.pos + 9

(***************************************************************************)
(* C25.  Without in_log_time_order, messages() on a file with chunks       *)
(* returns the messages chunk after chunk: of two messages of one chunk    *)
(* the one written first stands first, also with in_reverse; of two        *)
(* messages of different chunks the one stands first whose chunk has the   *)
(* lower (with in_reverse the higher) message_start_time, or, the times    *)
(* being equal, whose chunk stands first in the file.                      *)
(***************************************************************************)
\* the Chunk records of the file, in the order of the file
FileChunks ==
    SelectSeq(RecordsIn(file, 8, Len(file) - 8), LAMBDA r : r.opcode = OpChunk)

\* the message m is one of the records of the k-th chunk of the file
InChunk(m, k) ==
    LET inside == Inside(file, FileChunks[k].offset)
        records == RecordsIn(inside, 0, Len(inside))
    IN  \E n \in 1..Len(records) :
           Slice(inside, records[n].offset, records[n].length) = encode_message_record(m)

ChunkOf(m) == CHOOSE k \in 1..Len(FileChunks) : InChunk(m, k)

ChunkStartTime(k) == parse_chunk(file, FileChunks[k].offset).val.message_start_time

\* the chunk a is visited before the chunk b
VisitedBefore(a, b, reverse) ==
    \/ ~reverse /\ ChunkStartTime(a) < ChunkStartTime(b)
    \/ reverse /\ ChunkStartTime(a) > ChunkStartTime(b)
    \/ ChunkStartTime(a) = ChunkStartTime(b) /\ a < b

C25_ChunkOrder ==
    (pc = "read" /\ query.op = "messages" /\ ~query.in_log_time_order
     /\ rd.val.summary.chunk_indices # <<>> /\ res.ok)
        => /\ SameMessages(res.val, Wanted(query))
           /\ \A i, j \in DOMAIN res.val :
                 i < j =>
                    IF ChunkOf(res.val[i]) = ChunkOf(res.val[j])
                    THEN IndexOf(written, res.val[i]) < IndexOf(written, res.val[j])
                    ELSE VisitedBefore(ChunkOf(res.val[i]), ChunkOf(res.val[j]),
                                       query.in_reverse)

\* a reverse call that returned a chunk of two messages in their write order
\* after a chunk written behind it
C25_Witness ==
    /\ pc = "read" /\ query.op = "messages" /\ ~query.in_log_time_order
    /\ query.in_reverse
    /\ rd.val.summary.chunk_indices # <<>> /\ res.ok
    /\ Len(res.val) = 3
    /\ ChunkOf(res.val[1]) = 2
    /\ ChunkOf(res.val[2]) = 1 /\ ChunkOf(res.val[3]) = 1
    /\ res.val[2].log_time < res.val[3].log_time

(***************************************************************************)
(* C26.  A map reader that returns a map has consumed the u32 prefix and   *)
(* exactly as many bytes of entries as the prefix declares, whether or not *)
(* the prefix is a whole number of entries; and a map that the writer      *)
(* encoded is read back equal.                                             *)
(***************************************************************************)
C26_MapPrefix ==
    pc = "map read" =>
        /\ res.ok => res.pos = 4 + query.prefix
        /\ query.written => res.ok /\ res.val = query.map

\* what holds: a written map is read back equal and its bytes are consumed
\* exactly; with any prefix the reader takes whole entries until the bytes
\* taken reach the prefix, so it never stops short of it
C26_WholeEntries ==
    pc = "map read" =>
        /\ res.ok => res.pos >= 4 + query.prefix
        /\ query.written => res.ok /\ res.val = query.map /\ res.pos = 4 + query.prefix

\* a map of counts read with a prefix that ends inside its second entry
C26_Overread ==
    /\ pc = "map read" /\ query.type = "map_u16_u64"
    /\ query.prefix = 15 /\ res.ok /\ res.pos = 24

(***************************************************************************)
(* C27.  On every file that FastMcapReader::open accepts, whatever         *)
(* summary_start, header length and record lengths it declares,            *)
(* for_each_message and iter_messages end without a panic: they index no   *)
(* byte at or behind the end of the mapped bytes and form no byte range    *)
(* whose start exceeds its end.                                            *)
(***************************************************************************)
C27_NoPanic ==
    pc \in {"visited", "iterated"} => (res.ok \/ res.err.kind # "Panic")

\* for_each_message panicked on a file without chunks whose footer declares
\* a summary_start before the end of the header
C27_PanicBeforeData ==
    /\ pc = "visited" /\ ~res.ok /\ res.err.kind = "Panic"
    /\ rd.val.chunks = <<>> /\ rd.val.data_end < rd.val.data_start

\* for_each_message panicked on a file without chunks whose footer declares
\* a summary_start behind the end of the file
C27_PanicBehindEnd ==
    /\ pc = "visited" /\ ~res.ok /\ res.err.kind = "Panic"
    /\ rd.val.chunks = <<>> /\ rd.val.data_end > Len(file)

(***************************************************************************)
(* C28.  When the flush of a chunk fails, the write_message,               *)
(* write_attachment, write_metadata or close call that flushed returns the *)
(* error, and the writer is as before the flush: the chunk buffer holds    *)
(* every record buffered so far, no Chunk record is in the sink and no     *)
(* ChunkIndex was added.                                                   *)
(***************************************************************************)
\* no record of the sink is a Chunk
NoChunkWritten == OpChunk \notin Opcodes(RecordsIn(w.writer, 8, Len(w.writer)))

C28_FailedFlushKeepsBuffer ==
    pc = "failed" =>
        /\ w.chunk_buffer = Concat(CallRecords)
        /\ w.chunk_indices = <<>>
        /\ NoChunkWritten

\* what holds: no Chunk is written and no ChunkIndex added, but the buffer
\* the failed flush leaves behind is empty
C28_BufferLost ==
    pc = "failed" =>
        /\ CallRecords # <<>>
        /\ w.chunk_buffer = <<>>
        /\ w.chunk_indices = <<>>
        /\ NoChunkWritten

\* close failed on a writer that had buffered a schema and a message
C28_FailedClose ==
    /\ pc = "failed" /\ calls = 2 /\ Len(written) = 1
    /\ Len(CallRecords) = 2 /\ w.chunk_buffer = <<>>

(***************************************************************************)
(* C29.  In a file the writer closed, the ChunkIndex records of the        *)
(* summary and the Chunk records of the data section correspond one to one *)
(* in order: the i-th index holds the offset of the opcode byte of the     *)
(* i-th chunk, its full length, the length of its stored records, and its  *)
(* uncompressed_size, compression and time range; and no chunk is empty.   *)
(***************************************************************************)
\* the ChunkIndex records of the file, in the order of the file
FileChunkIndexes ==
    SelectSeq(RecordsIn(file, 8, Len(file) - 8), LAMBDA r : r.opcode = OpChunkIndex)

\* the ChunkIndex record `index` describes the Chunk record `chunk`, which
\* stands at `at` of the file
Describes(index, chunk, at) ==
    /\ index.chunk_start_offset = at.offset
    /\ index.chunk_length = at.length
    /\ index.compressed_size = Len(chunk.records)
    /\ index.uncompressed_size = chunk.uncompressed_size
    /\ index.compression = chunk.compression
    /\ index.message_start_time = chunk.message_start_time
    /\ index.message_end_time = chunk.message_end_time

C29_ChunkIndexConsistency ==
    pc = "closed" =>
        /\ Len(FileChunkIndexes) = Len(FileChunks)
        /\ \A i \in 1..Len(FileChunks) :
              /\ parse_chunk(file, FileChunks[i].offset).ok
              /\ parse_chunk_index(file, FileChunkIndexes[i].offset).ok
              /\ Describes(parse_chunk_index(file, FileChunkIndexes[i].offset).val,
                           parse_chunk(file, FileChunks[i].offset).val, FileChunks[i])
              /\ parse_chunk(file, FileChunks[i].offset).val.uncompressed_size > 0
              /\ parse_chunk(file, FileChunks[i].offset).val.records # <<>>

\* a closed file of three chunks, the last one compressed
C29_Witness ==
    /\ pc = "closed"
    /\ Len(FileChunks) = MaxCalls /\ Len(FileChunkIndexes) = MaxCalls
    /\ parse_chunk(file, FileChunks[MaxCalls].offset).val.compression = NameLz4

(***************************************************************************)
(* C30.  CdrDecoder and RustCdrDecoder, made from the same message buffer  *)
(* and asked for the same typed reads, read every primitive from the same  *)
(* bytes of the message and return the same values, or fail both.          *)
(***************************************************************************)
Agree(read) ==
    /\ read.cdr.ok = read.rust.ok
    /\ read.cdr.ok => read.cdr.val = read.rust.val /\ read.cdr.at = read.rust.at

C30_DecodersAgree ==
    pc = "decoders" => \A i \in 1..Len(cdr) : Agree(cdr[i])

\* what holds: the decoders agree as long as no primitive of 8 bytes and no
\* char above 127 has been read
C30_AgreeBelowEight ==
    pc = "decoders" =>
        \A i \in 1..Len(cdr) :
            (\A j \in 1..i : /\ PrimitiveSize(cdr[j].type) < 8
                             /\ cdr[j].type = "char" /\ cdr[j].cdr.ok
                                    => cdr[j].cdr.val < 128)
                => Agree(cdr[i])

\* read_f64 as the first read of the point message: CdrDecoder reads the
\* bytes 8..16, the upper half of x and the lower half of y, RustCdrDecoder
\* the bytes 4..12, which are x = 1.0
C30_FirstFloat64 ==
    /\ pc = "decoders" /\ query.data = PointPayload
    /\ Len(cdr) = 1 /\ cdr[1].type = "f64"
    /\ cdr[1].cdr.ok /\ cdr[1].rust.ok
    /\ cdr[1].cdr.at = 8 /\ cdr[1].rust.at = 4
    /\ cdr[1].cdr.val = SubSeq(F64LE(1), 5, 8) \o SubSeq(F64LE(2), 1, 4)
    /\ cdr[1].rust.val = F64LE(1)
====
